---- MODULE Spec2Model ----
(***************************************************************************)
(* Model of the ERC-20 token test suite (src/suite.js, the version of      *)
(* lines 272-908) and of its revert helper (helpers: src/unnamed/part_000, *)
(* part_001).                                                              *)
(*                                                                         *)
(* The suite is a mocha program: an outer beforeEach that deploys a fresh  *)
(* token, optional nested beforeEach hooks, the scenario bodies (the `it`  *)
(* callbacks) and an outer afterEach.  A scenario body is a straight line  *)
(* of awaited statements; it is modelled as a sequence of steps, and one   *)
(* step is executed per transition.  The contract under test is outside    *)
(* the repository; it is modelled from the interface the spec describes,   *)
(* as a reference token with a choice of single defects.                   *)
(***************************************************************************)
EXTENDS Integers, Sequences, FiniteSets, TLC

VARIABLES
    options,       \* the SuiteOptions record handed to suite(options)
    token,         \* suite.js:353  let token = null
    decimals,      \* suite.js:354  let decimals = 0
    phase,         \* position of the mocha runner
    scenario,      \* the `it` being run (name and role bindings)
    pc,            \* index of the next statement of the scenario body
    locals,        \* the `let` variables of the scenario body
    result,        \* `result.logs` of the last committed transaction
    verdict,       \* outcome of the current scenario
    created,       \* number of calls made to the factory callback
    leftDirty,     \* a finished scenario left its instance changed
    pendingHooks,  \* hook callbacks that were started and not awaited
    promise,       \* the promise handed to the revert helper
    helper,        \* which exported helper is applied to it
    outcome        \* how the helper call ended

vars == <<options, token, decimals, phase, scenario, pc, locals, result,
          verdict, created, leftDirty, pendingHooks, promise, helper, outcome>>

suiteVars == <<options, token, decimals, phase, scenario, pc, locals, result,
               verdict, created, leftDirty, pendingHooks>>

helperVars == <<promise, helper, outcome>>

(***************************************************************************)
(* Strings.  A JavaScript string is a sequence of one-character strings.   *)
(***************************************************************************)
S_revert == <<"r","e","v","e","r","t">>
S_invalid_opcode == <<"i","n","v","a","l","i","d"," ","o","p","c","o","d","e">>
S_out_of_gas == <<"o","u","t"," ","o","f"," ","g","a","s">>
S_Revert == <<"R","e","v","e","r","t">>
S_rever == <<"r","e","v","e","r">>
S_invalid == <<"i","n","v","a","l","i","d">>
S_opcode == <<"o","p","c","o","d","e">>
S_invalidopcode == <<"i","n","v","a","l","i","d","o","p","c","o","d","e">>
S_invalid_jump == <<"i","n","v","a","l","i","d"," ","J","U","M","P">>
S_vmPrefix == <<"V","M"," ","E","x","c","e","p","t","i","o","n",":"," ">>
S_errPrefix == <<"E","r","r","o","r",":"," ">>
S_re == <<"r","e">>
S_atTx == <<" ","a","t"," ","t","x">>
S_dot == <<".">>
S_invalid_address == <<"i","n","v","a","l","i","d"," ","a","d","d","r","e","s","s">>

\* String.prototype.search with a pattern free of regular-expression
\* metacharacters: the 0-based index of the first occurrence, or -1.
RECURSIVE searchFrom(_, _, _)
searchFrom(s, pat, i) ==
    IF i + Len(pat) > Len(s) THEN -1
    ELSE IF SubSeq(s, i + 1, i + Len(pat)) = pat THEN i
    ELSE searchFrom(s, pat, i + 1)

search(s, pat) == searchFrom(s, pat, 0)

(***************************************************************************)
(* The revert helpers.                                                     *)
(***************************************************************************)
\* a settled promise; hasMessage is FALSE when the thrown value carries no
\* `message` property
Resolved == [settled |-> "resolved", hasMessage |-> FALSE, message |-> <<>>]
Rejected(m) == [settled |-> "rejected", hasMessage |-> TRUE, message |-> m]
RejectedBare == [settled |-> "rejected", hasMessage |-> FALSE, message |-> <<>>]

Returned == "returned"
FailNotReceived == "assert.fail: Expected revert not received."
FailGotInstead == "assert.fail: Expected revert, got error instead."
FailTypeError == "TypeError"

\* the for loop of expectError: TRUE when some messages[i], i >= from,
\* occurs in the thrown message (the loop returns at the first such i)
RECURSIVE matchesFrom(_, _, _)
matchesFrom(message, messages, i) ==
    IF i > Len(messages) THEN FALSE
    ELSE IF search(message, messages[i]) >= 0 THEN TRUE
    ELSE matchesFrom(message, messages, i + 1)

\* the closing assert.fail is missing: a promise that resolves is accepted
expectError_acceptsResolve(p, messages) ==
    IF p.settled = "resolved" THEN Returned
    ELSE IF ~p.hasMessage THEN FailTypeError
    ELSE IF matchesFrom(p.message, messages, 1) THEN Returned
    ELSE FailGotInstead

\* the loop stopped after its first pattern
expectError_firstOnly(p, messages) ==
    IF p.settled = "resolved" THEN FailNotReceived
    ELSE IF ~p.hasMessage THEN FailTypeError
    ELSE IF matchesFrom(p.message, <<messages[1]>>, 1) THEN Returned
    ELSE FailGotInstead

expectError(p, messages) ==
    IF p.settled = "resolved" THEN FailNotReceived
    ELSE IF ~p.hasMessage THEN FailTypeError
    ELSE IF matchesFrom(p.message, messages, 1) THEN Returned
    ELSE FailGotInstead

expectRevert(p) == expectError(p, <<S_revert>>)

expectRevertOrFail(p) == expectError(p, <<S_revert, S_invalid_opcode>>)

\* thrown messages the helper is applied to
Prefixes == {<<>>, S_vmPrefix, S_errPrefix, S_re}
Cores == {<<>>, S_revert, S_invalid_opcode, S_out_of_gas, S_Revert, S_rever,
          S_invalid, S_opcode, S_invalidopcode, S_invalid_jump}
Suffixes == {<<>>, S_atTx, S_dot, S_opcode}

Messages == {p \o c \o s : p \in Prefixes, c \in Cores, s \in Suffixes}

Promises == {Resolved, RejectedBare} \cup {Rejected(m) : m \in Messages}

NoPromise == [settled |-> "none", hasMessage |-> FALSE, message |-> <<>>]

(***************************************************************************)
(* The contract under test.  It is not part of the repository: the suite   *)
(* reaches it through the interface of the specification (balances,        *)
(* allowances, total supply; a simulate `.call` and a committing call that *)
(* yields a receipt with the event log).  TokenKinds lists the reference   *)
(* token and tokens that differ from it by one defect.                     *)
(***************************************************************************)
Owner == "0xA0"
Aux == "0x1"
\* the address an absent argument is encoded as
ZeroAddress == "0x0"
Addresses == {"0xA0", "0xA1", "0xA2", "0xA3", "0x1", "0x0"}
Undefined == "undefined"

TokenKinds == {"conforming", "assertive", "outOfGas", "additiveApprove",
               "quietApprove", "zeroTransferReverts", "quietZeroTransfer",
               "uncheckedSelfTransfer", "selfTransferMints", "feeOnTransfer",
               "resetsAllowance", "ownerSpendsFreely", "zeroNeedsAllowance",
               "ignoresAllowance", "noDecimals", "trailingEvent",
               "symmetricApprove", "ownerWideApprove", "rejectionDebits",
               "increaseOverwrites", "increaseWraps", "increaseBelowMaxOnly",
               "quietIncrease", "decreaseReverts", "decreaseWraps",
               "quietDecrease"}

Event(name, a, b, v) == [event |-> name, arg1 |-> a, arg2 |-> b, value |-> v]

\* a call on the contract: fn(src, dst, amt) sent by sender
Tx(fn, sender, src, dst, amt) ==
    [fn |-> fn, sender |-> sender, src |-> src, dst |-> dst, amt |-> amt]

Ledger(tk) == [bal |-> tk.bal, allowed |-> tk.allowed, supply |-> tk.supply]

Reverted(tk) == [ok |-> FALSE, bal |-> tk.bal, allowed |-> tk.allowed,
                 supply |-> tk.supply, logs |-> <<>>]

Committed(bal, allowed, supply, logs) ==
    [ok |-> TRUE, bal |-> bal, allowed |-> allowed, supply |-> supply,
     logs |-> logs]

ExecApprove(tk, kind, owner, spender, v) ==
    LET old == tk.allowed[<<owner, spender>>]
        new == IF kind = "additiveApprove" THEN old + v ELSE v
        logs == IF kind = "quietApprove" /\ new = old THEN <<>>
                ELSE IF kind = "trailingEvent"
                     THEN <<Event("Approval", owner, spender, new),
                            Event("Transfer", owner, spender, new)>>
                ELSE <<Event("Approval", owner, spender, new)>>
        allowed == [p \in DOMAIN tk.allowed |->
                      IF \/ p = <<owner, spender>>
                         \/ kind = "symmetricApprove" /\ p = <<spender, owner>>
                         \/ kind = "ownerWideApprove" /\ p[1] = owner
                      THEN new ELSE tk.allowed[p]]
    IN  Committed(tk.bal, allowed, tk.supply, logs)

\* the recipient is credited and the sender is never debited
ExecTransfer_creditsOnly(tk, kind, from, to, v) ==
    IF tk.bal[from] < v THEN Reverted(tk)
    ELSE Committed([tk.bal EXCEPT ![to] = @ + v], tk.allowed, tk.supply,
                   <<Event("Transfer", from, to, v)>>)

ExecTransfer(tk, kind, from, to, v) ==
    LET unchecked == kind = "uncheckedSelfTransfer" /\ from = to
        fee == IF kind = "feeOnTransfer" /\ v > 0 THEN 1 ELSE 0
        bal == IF kind = "selfTransferMints" /\ from = to
                    THEN [tk.bal EXCEPT ![to] = @ + v]
               ELSE IF from = to THEN [tk.bal EXCEPT ![to] = @ - fee]
               ELSE [tk.bal EXCEPT ![from] = @ - v, ![to] = @ + v - fee]
        logs == IF kind = "quietZeroTransfer" /\ v = 0 THEN <<>>
                ELSE <<Event("Transfer", from, to, v)>>
    IN  IF kind = "zeroTransferReverts" /\ v = 0 THEN Reverted(tk)
        ELSE IF tk.bal[from] < v /\ ~unchecked
             THEN IF kind = "rejectionDebits"
                  THEN Reverted([tk EXCEPT !.bal[from] = 0])
                  ELSE Reverted(tk)
        ELSE Committed(bal, tk.allowed, tk.supply - fee, logs)

ExecTransferFrom(tk, kind, sender, from, to, v) ==
    LET moved == ExecTransfer(tk, kind, from, to, v)
        old == tk.allowed[<<from, sender>>]
        free == \/ kind = "ignoresAllowance"
                \/ kind = "ownerSpendsFreely" /\ sender = from
        left == IF free THEN old
                ELSE IF kind = "resetsAllowance" THEN 0
                ELSE old - v
    IN  IF old < v /\ ~free THEN Reverted(tk)
        ELSE IF kind = "zeroNeedsAllowance" /\ old = 0 THEN Reverted(tk)
        ELSE IF ~moved.ok THEN Reverted(tk)
        ELSE Committed(moved.bal,
                       [tk.allowed EXCEPT ![<<from, sender>>] = left],
                       moved.supply, moved.logs)

\* the width of the contract's unsigned integers (uint256), scaled down so
\* that the largest value remains a machine integer
WordBits == 16

RECURSIVE Pow2(_)
Pow2(n) == IF n = 0 THEN 1 ELSE 2 * Pow2(n - 1)

\* new web3.BigNumber(2).pow(256).minus(1)
uintMax == Pow2(WordBits) - 1

ExecIncreaseApproval(tk, kind, owner, spender, v) ==
    LET old == tk.allowed[<<owner, spender>>]
        sum == IF kind = "increaseOverwrites" THEN v ELSE old + v
        new == IF kind = "increaseWraps" THEN sum % Pow2(WordBits) ELSE sum
        limit == IF kind = "increaseBelowMaxOnly" THEN uintMax - 1 ELSE uintMax
        logs == IF kind = "quietIncrease" /\ v = 0 THEN <<>>
                ELSE <<Event("Approval", owner, spender, new)>>
    IN  IF new > limit THEN Reverted(tk)
        ELSE Committed(tk.bal, [tk.allowed EXCEPT ![<<owner, spender>>] = new],
                       tk.supply, logs)

ExecDecreaseApproval(tk, kind, owner, spender, v) ==
    LET old == tk.allowed[<<owner, spender>>]
        new == IF v <= old THEN old - v
               ELSE IF kind = "decreaseWraps" THEN Pow2(WordBits) + old - v
               ELSE 0
        logs == IF kind = "quietDecrease" /\ v = 0 THEN <<>>
                ELSE <<Event("Approval", owner, spender, new)>>
    IN  IF kind = "decreaseReverts" /\ v > old THEN Reverted(tk)
        ELSE Committed(tk.bal, [tk.allowed EXCEPT ![<<owner, spender>>] = new],
                       tk.supply, logs)

\* a minting credit: new tokens for `to`
ExecMint(tk, to, v) ==
    Committed([tk.bal EXCEPT ![to] = @ + v], tk.allowed, tk.supply + v,
              <<Event("Transfer", Aux, to, v)>>)

Exec(tk, kind, tx) ==
    CASE tx.fn = "approve" -> ExecApprove(tk, kind, tx.sender, tx.dst, tx.amt)
      [] tx.fn = "transfer" -> ExecTransfer(tk, kind, tx.sender, tx.dst, tx.amt)
      [] tx.fn = "transferFrom" ->
            ExecTransferFrom(tk, kind, tx.sender, tx.src, tx.dst, tx.amt)
      [] tx.fn = "increaseApproval" ->
            ExecIncreaseApproval(tk, kind, tx.sender, tx.dst, tx.amt)
      [] tx.fn = "decreaseApproval" ->
            ExecDecreaseApproval(tk, kind, tx.sender, tx.dst, tx.amt)
      [] tx.fn = "mint" -> ExecMint(tk, tx.dst, tx.amt)

\* the message of the error a failed call is surfaced with
ErrorMessage(kind) ==
    S_vmPrefix \o (CASE kind = "assertive" -> S_invalid_opcode
                     [] kind = "outOfGas" -> S_out_of_gas
                     [] OTHER -> S_revert)

\* the promise of a committing call, once settled
Settled(tk, kind, tx) ==
    IF Exec(tk, kind, tx).ok THEN Resolved ELSE Rejected(ErrorMessage(kind))

(***************************************************************************)
(* suite(options): configuration (suite.js:336-354).                       *)
(***************************************************************************)
MaxScenarios == 2

ZeroBalances == [a \in Addresses |-> 0]
ZeroAllowances == [p \in Addresses \X Addresses |-> 0]

\* `token = null`: no instance, written as an instance with id 0
Null == [id |-> 0, bal |-> ZeroBalances, allowed |-> ZeroAllowances,
         supply |-> 0]

FourAccounts == [i \in 0..3 |-> CASE i = 0 -> "0xA0" [] i = 1 -> "0xA1"
                                  [] i = 2 -> "0xA2" [] i = 3 -> "0xA3"]

\* what the factory callback deploys
Contract(kind, dec, supply, bal) ==
    [kind |-> kind, hasDecimals |-> TRUE, decimals |-> dec, supply |-> supply,
     bal |-> bal, name |-> "MyToken", symbol |-> "MTK"]

BaseOptions ==
    [accounts |-> FourAccounts,
     token |-> Contract("conforming", 0, 0, ZeroBalances),
     purchase |-> "mint",
     initialSupply |-> 0,
     initialBalances |-> <<>>,
     initialAllowances |-> <<>>,
     beforeEach |-> FALSE,
     afterEach |-> FALSE,
     increaseDecreaseApproval |-> FALSE,
     hasName |-> FALSE, name |-> Undefined,
     hasSymbol |-> FALSE, symbol |-> Undefined,
     hasDecimals |-> FALSE, decimals |-> 0,
     supplyIsNumber |-> FALSE]

\* `options.token` is undefined: the options give no factory under that key
NoFactory ==
    [kind |-> Undefined, hasDecimals |-> FALSE, decimals |-> 0, supply |-> 0,
     bal |-> ZeroBalances, name |-> Undefined, symbol |-> Undefined]

\* the README's `initialSupply: 100`, in units
ReadmeSupply == 100

\* the README's `decimals: 18`, scaled down so that tokens(n) remains a
\* machine integer below uintMax; one token (10^ReadmeDecimals units) still
\* exceeds the ReadmeSupply units that accounts[0] holds
ReadmeDecimals == 3

\* the README's options as written: the callbacks are under the keys create
\* and mint, so that options.token and options.purchase are undefined, and
\* initialSupply is the number 100; the approvals group and the token info
\* are switched on
ReadmeOptions ==
    [BaseOptions EXCEPT
        !.token = NoFactory,
        !.purchase = Undefined,
        !.increaseDecreaseApproval = TRUE,
        !.hasName = TRUE, !.name = "MyToken",
        !.hasSymbol = TRUE, !.symbol = "MTK",
        !.hasDecimals = TRUE, !.decimals = ReadmeDecimals,
        !.supplyIsNumber = TRUE,
        !.initialSupply = ReadmeSupply,
        !.initialBalances = << <<"0xA0", ReadmeSupply>> >>,
        !.initialAllowances = << <<"0xA0", "0xA1", 0>> >>]

\* the same options with the supply given as a BigNumber
BigNumberReadmeOptions == [ReadmeOptions EXCEPT !.supplyIsNumber = FALSE]

\* the same options once more, with the README's callbacks under the keys
\* the suite reads: options.token deploys a conforming token whose
\* accounts[0] holds the supply, options.purchase transfers from accounts[0]
RunnableReadmeOptions ==
    [BigNumberReadmeOptions EXCEPT
        !.token = Contract("conforming", ReadmeDecimals, ReadmeSupply,
                           [ZeroBalances EXCEPT !["0xA0"] = ReadmeSupply]),
        !.purchase = "transfer"]

\* a token of no decimals credited by transfers from accounts[0], which
\* holds enough for every credit of a scenario
TransferCreditOptions ==
    [BaseOptions EXCEPT
        !.token = Contract("conforming", 0, ReadmeSupply,
                           [ZeroBalances EXCEPT !["0xA0"] = ReadmeSupply]),
        !.purchase = "transfer",
        !.initialSupply = ReadmeSupply,
        !.initialBalances = << <<"0xA0", ReadmeSupply>> >>,
        !.initialAllowances = << <<"0xA0", "0xA1", 0>> >>]

\* a participant that holds tokens from the start
HolderBalance == 5
HolderOptions(a) ==
    [BaseOptions EXCEPT
        !.token = Contract("conforming", 0, HolderBalance,
                           [ZeroBalances EXCEPT ![a] = HolderBalance]),
        !.initialSupply = HolderBalance,
        !.initialBalances = << <<a, HolderBalance>> >>]

\* the README's token info, for a token of d decimals
InfoOptions(d) ==
    [BaseOptions EXCEPT !.token.decimals = d,
                        !.hasName = TRUE, !.name = "MyToken",
                        !.hasSymbol = TRUE, !.symbol = "MTK",
                        !.hasDecimals = TRUE, !.decimals = d]

\* token info the token does not have
WrongInfoOptions ==
    [BaseOptions EXCEPT !.hasName = TRUE, !.name = "OtherToken",
                        !.hasSymbol = TRUE, !.symbol = "OTK",
                        !.hasDecimals = TRUE, !.decimals = 1]

\* a token without the optional decimals() query
NoDecimalsOptions ==
    [BaseOptions EXCEPT !.token.kind = "noDecimals",
                        !.token.hasDecimals = FALSE]

\* the defects of increaseApproval and decreaseApproval
ApprovalKinds == {"increaseOverwrites", "increaseWraps", "increaseBelowMaxOnly",
                  "quietIncrease", "decreaseReverts", "decreaseWraps",
                  "quietDecrease"}

Configs ==
    {[BaseOptions EXCEPT !.token.kind = k] :
        k \in TokenKinds \ (ApprovalKinds \cup {"noDecimals"})}
    \cup {[BaseOptions EXCEPT !.token.decimals = 1]}
    \cup {ReadmeOptions, BigNumberReadmeOptions, RunnableReadmeOptions,
          TransferCreditOptions,
          HolderOptions("0xA1"), HolderOptions("0xA2")}
    \cup {[BaseOptions EXCEPT !.beforeEach = TRUE, !.afterEach = TRUE]}
    \cup {[BaseOptions EXCEPT !.token.kind = k,
                              !.increaseDecreaseApproval = TRUE] :
             k \in {"conforming"} \cup ApprovalKinds}
    \cup {[BaseOptions EXCEPT !.token.decimals = 1,
                              !.increaseDecreaseApproval = TRUE]}
    \cup {NoDecimalsOptions}
    \cup {InfoOptions(0), InfoOptions(1), WrongInfoOptions,
          [BaseOptions EXCEPT !.hasName = TRUE, !.name = "MyToken"]}

account(i) == IF i \in DOMAIN options.accounts THEN options.accounts[i]
              ELSE Undefined

alice == account(1)
bob == account(2)
charles == account(3)

initialSupply == options.initialSupply
initialBalances == options.initialBalances
initialAllowances == options.initialAllowances

RECURSIVE Pow10(_)
Pow10(n) == IF n = 0 THEN 1 ELSE 10 * Pow10(n - 1)

\* new web3.BigNumber(amount).shift(decimals)
tokens(amount) == amount * Pow10(decimals)

\* the instance the factory callback returns on its n-th call
Deploy(n) ==
    [id |-> n, bal |-> options.token.bal, allowed |-> ZeroAllowances,
     supply |-> options.token.supply]

\* `token = token || await createToken()`
createToken_reuse(prev, n) == IF prev = Null THEN Deploy(n) ELSE prev

\* `token = await createToken()`
createToken(prev, n) == Deploy(n)

\* the credit is always a transfer out of accounts[0]
purchase_byTransfer(to, amount) == Tx("transfer", Owner, Owner, to, amount)

\* options.purchase(token, to, amount)
purchase(to, amount) ==
    IF options.purchase = "mint" THEN Tx("mint", Owner, Owner, to, amount)
    ELSE Tx("transfer", Owner, Owner, to, amount)

(***************************************************************************)
(* Statements of a scenario body.  Amounts are kept as the argument n of   *)
(* tokens(n) and scaled when the statement runs (0 stands for the literal  *)
(* 0 as well, tokens(0) being 0).                                          *)
(***************************************************************************)
Approve(from, to, n) ==
    [fn |-> "approve", sender |-> from, src |-> from, dst |-> to, tok |-> n,
     max |-> FALSE]
Transfer(from, to, n) ==
    [fn |-> "transfer", sender |-> from, src |-> from, dst |-> to, tok |-> n,
     max |-> FALSE]
TransferFrom(from, via, to, n) ==
    [fn |-> "transferFrom", sender |-> via, src |-> from, dst |-> to,
     tok |-> n, max |-> FALSE]
\* token.increaseApproval(to, tokens(n), {from: from})
IncreaseApproval(from, to, n) ==
    [fn |-> "increaseApproval", sender |-> from, src |-> from, dst |-> to,
     tok |-> n, max |-> FALSE]
\* token.increaseApproval(to, uintMax, {from: from})
IncreaseApprovalMax(from, to) ==
    [fn |-> "increaseApproval", sender |-> from, src |-> from, dst |-> to,
     tok |-> 0, max |-> TRUE]
\* token.decreaseApproval(to, tokens(n), {from: from})
DecreaseApproval(from, to, n) ==
    [fn |-> "decreaseApproval", sender |-> from, src |-> from, dst |-> to,
     tok |-> n, max |-> FALSE]
\* token.decreaseApproval(to, uintMax, {from: from})
DecreaseApprovalMax(from, to) ==
    [fn |-> "decreaseApproval", sender |-> from, src |-> from, dst |-> to,
     tok |-> 0, max |-> TRUE]

TotalSupply == [q |-> "totalSupply", a |-> Undefined, b |-> Undefined]
BalanceOf(a) == [q |-> "balanceOf", a |-> a, b |-> Undefined]
Allowance(a, b) == [q |-> "allowance", a |-> a, b |-> b]

\* an expected value: base + tokens(tok) + raw
Tokens(n) == [base |-> "zero", tok |-> n, raw |-> 0]
Raw(v) == [base |-> "zero", tok |-> 0, raw |-> v]
InitialSupplyPlus(n) == [base |-> "initialSupply", tok |-> n, raw |-> 0]
Local(name) == [base |-> name, tok |-> 0, raw |-> 0]
LocalPlus(name, n) == [base |-> name, tok |-> n, raw |-> 0]
LocalMinus(name, n) == [base |-> name, tok |-> 0 - n, raw |-> 0]

\* await purchase(to, tokens(n))
Credit(to, n) == [op |-> "purchase", to |-> to, tok |-> n]
\* assert.isTrue(await token.fn.call(...))
IsTrue(call) == [op |-> "isTrue", call |-> call]
\* [let result =] await token.fn(...)
Send(call) == [op |-> "send", call |-> call]
\* await expectRevertOrFail(token.fn(...))
ExpectRevertOrFail(call) == [op |-> "expectRevertOrFail", call |-> call]
\* let name = await token.query.call(...)
Let(name, query) == [op |-> "let", name |-> name, query |-> query]
\* expect(await token.query.call(...)).to.be.bignumber.equal(expr)
Expect(query, expr) == [op |-> "expect", query |-> query, expr |-> expr]
\* expect(name).to.be.bignumber.equal(expr)
ExpectLocal(name, expr) == [op |-> "expectLocal", name |-> name, expr |-> expr]
\* assert.equal(await token.key.call(), options.key), and its bignumber
\* form for decimals
ExpectInfo(key) == [op |-> "expectInfo", key |-> key]
\* let log = result.logs[0]; the four assertions on log
CheckLog(event, a, b, n) ==
    [op |-> "checkLog", event |-> event, arg1 |-> a, arg2 |-> b, tok |-> n]

LocalNames == {"supply1", "supply2",
               "fromBalance1", "fromBalance2", "fromBalance3",
               "viaBalance1", "viaBalance2", "viaBalance3",
               "toBalance1", "toBalance2", "toBalance3",
               "viaAllowance1", "viaAllowance2", "viaAllowance3",
               "toAllowance1", "toAllowance2", "toAllowance3"}

NoLocals == [n \in LocalNames |-> 0]

(***************************************************************************)
(* describe('totalSupply()') and describe('balanceOf(_owner)').            *)
(***************************************************************************)
totalSupply_shouldHaveInitialSupply ==
    << Expect(TotalSupply, InitialSupplyPlus(0)) >>

totalSupply_shouldReturnTheCorrectSupply ==
    << Credit(alice, 1), Expect(TotalSupply, InitialSupplyPlus(1)),
       Credit(alice, 2), Expect(TotalSupply, InitialSupplyPlus(3)),
       Credit(bob, 3), Expect(TotalSupply, InitialSupplyPlus(6)) >>

balanceOf_shouldHaveCorrectInitialBalances ==
    [i \in 1..Len(initialBalances) |->
        Expect(BalanceOf(initialBalances[i][1]), Raw(initialBalances[i][2]))]

balanceOf_shouldReturnTheCorrectBalances ==
    << Credit(alice, 1), Expect(BalanceOf(alice), Tokens(1)),
       Credit(alice, 2), Expect(BalanceOf(alice), Tokens(3)),
       Credit(bob, 3), Expect(BalanceOf(bob), Tokens(3)) >>

(***************************************************************************)
(* describe('allowance(_owner, _spender)').                                *)
(***************************************************************************)
allowance_shouldHaveCorrectInitialAllowance ==
    [i \in 1..Len(initialAllowances) |->
        Expect(Allowance(initialAllowances[i][1], initialAllowances[i][2]),
               Raw(initialAllowances[i][3]))]

\* one direction of each pair only
allowance_shouldReturnTheCorrectAllowance_oneWay ==
    << Send(Approve(alice, bob, 1)),
       Send(Approve(bob, charles, 3)),
       Send(Approve(charles, alice, 5)),
       Expect(Allowance(alice, bob), Tokens(1)),
       Expect(Allowance(bob, charles), Tokens(3)),
       Expect(Allowance(charles, alice), Tokens(5)) >>

allowance_shouldReturnTheCorrectAllowance ==
    << Send(Approve(alice, bob, 1)),
       Send(Approve(alice, charles, 2)),
       Send(Approve(bob, charles, 3)),
       Send(Approve(bob, alice, 4)),
       Send(Approve(charles, alice, 5)),
       Send(Approve(charles, bob, 6)),
       Expect(Allowance(alice, bob), Tokens(1)),
       Expect(Allowance(alice, charles), Tokens(2)),
       Expect(Allowance(bob, charles), Tokens(3)),
       Expect(Allowance(bob, alice), Tokens(4)),
       Expect(Allowance(charles, alice), Tokens(5)),
       Expect(Allowance(charles, bob), Tokens(6)) >>

allowance_describeIt_shouldReturnTheCorrectAllowance(from, to) ==
    << Send(Approve(from, to, 1)), Expect(Allowance(from, to), Tokens(1)) >>

(***************************************************************************)
(* describe('approve(_spender, _value)').                                  *)
(***************************************************************************)
approve_testApprovalEvent(from, to, n) ==
    << Send(Approve(from, to, n)), CheckLog("Approval", from, to, n) >>

approve_shouldReturnTrueWhenApproving0(from, to) ==
    << IsTrue(Approve(from, to, 0)) >>

approve_shouldReturnTrueWhenApproving(from, to) ==
    << IsTrue(Approve(from, to, 3)) >>

approve_shouldReturnTrueWhenUpdatingApproval(from, to) ==
    << IsTrue(Approve(from, to, 2)), Send(Approve(from, to, 2)),
       IsTrue(Approve(from, to, 1)),
       IsTrue(Approve(from, to, 2)),
       IsTrue(Approve(from, to, 3)) >>

approve_shouldReturnTrueWhenRevokingApproval(from, to) ==
    << Send(Approve(from, to, 3)), IsTrue(Approve(from, to, 0)) >>

\* the scenario cut after its first check
approve_shouldUpdateAllowanceAccordingly_firstOnly(from, to) ==
    << Send(Approve(from, to, 1)), Expect(Allowance(from, to), Tokens(1)) >>

approve_shouldUpdateAllowanceAccordingly(from, to) ==
    << Send(Approve(from, to, 1)), Expect(Allowance(from, to), Tokens(1)),
       Send(Approve(from, to, 3)), Expect(Allowance(from, to), Tokens(3)),
       Send(Approve(from, to, 0)), Expect(Allowance(from, to), Tokens(0)) >>

approve_shouldFireApprovalEvent(from, to) ==
    approve_testApprovalEvent(from, to, 1)
    \o (IF from # to THEN approve_testApprovalEvent(to, from, 2) ELSE <<>>)

approve_shouldFireApprovalWhenAllowanceWasSetTo0(from, to) ==
    << Send(Approve(from, to, 3)) >> \o approve_testApprovalEvent(from, to, 0)

\* the events of the unchanged approvals are not looked at
approve_shouldFireApprovalEvenWhenAllowanceDidNotChange_unchecked(from, to) ==
    << Send(Approve(from, to, 0)),
       Send(Approve(from, to, 3)),
       Send(Approve(from, to, 3)) >>

approve_shouldFireApprovalEvenWhenAllowanceDidNotChange(from, to) ==
    approve_testApprovalEvent(from, to, 0)
    \o << Send(Approve(from, to, 3)) >>
    \o approve_testApprovalEvent(from, to, 3)

(***************************************************************************)
(* describe('transfer(_to, _value)').                                      *)
(***************************************************************************)
\* `if (amount > 0) await purchase(from, amount)`, the transfer, the log
transfer_testTransferEvent(from, to, n) ==
    (IF n > 0 THEN << Credit(from, n) >> ELSE <<>>)
    \o << Send(Transfer(from, to, n)), CheckLog("Transfer", from, to, n) >>

\* the simulated call replaced by a balance query
transfer_shouldReturnTrueWhenCalledWithAmountOf0_skipped(from, to) ==
    << Let("fromBalance1", BalanceOf(from)) >>

transfer_shouldReturnTrueWhenCalledWithAmountOf0(from, to) ==
    << IsTrue(Transfer(from, to, 0)) >>

transfer_shouldReturnTrueWhenTransferCanBeMade(from, to) ==
    << Credit(from, 3),
       IsTrue(Transfer(from, to, 1)),
       IsTrue(Transfer(from, to, 2)),
       IsTrue(Transfer(from, to, 3)),
       Send(Transfer(from, to, 1)),
       IsTrue(Transfer(from, to, 1)),
       IsTrue(Transfer(from, to, 2)) >>

transfer_shouldRevertWhileHavingNothing(from, to) ==
    << ExpectRevertOrFail(Transfer(from, to, 1)) >>

\* nothing is called after the rejection
transfer_shouldRevertMoreThanBalance_once(from, to) ==
    << Credit(from, 3),
       ExpectRevertOrFail(Transfer(from, to, 4)) >>

transfer_shouldRevertMoreThanBalance(from, to) ==
    << Credit(from, 3),
       ExpectRevertOrFail(Transfer(from, to, 4)),
       Send(Transfer(from, Aux, 1)),
       ExpectRevertOrFail(Transfer(from, to, 3)) >>

\* the two supplies are read and never compared
transfer_shouldNotAffectTotalSupply_unchecked(from, to) ==
    << Credit(from, 3),
       Let("supply1", TotalSupply),
       Send(Transfer(from, to, 3)),
       Let("supply2", TotalSupply) >>

transfer_shouldNotAffectTotalSupply(from, to) ==
    << Credit(from, 3),
       Let("supply1", TotalSupply),
       Send(Transfer(from, to, 3)),
       Let("supply2", TotalSupply),
       ExpectLocal("supply2", Local("supply1")) >>

\* the balances are read and never compared
transfer_shouldUpdateBalancesAccordingly_unchecked(from, to) ==
    << Credit(from, 3),
       Let("fromBalance1", BalanceOf(from)),
       Let("toBalance1", BalanceOf(to)),
       Send(Transfer(from, to, 1)),
       Let("fromBalance2", BalanceOf(from)),
       Let("toBalance2", BalanceOf(to)),
       Send(Transfer(from, to, 2)),
       Let("fromBalance3", BalanceOf(from)),
       Let("toBalance3", BalanceOf(to)) >>

transfer_shouldUpdateBalancesAccordingly(from, to) ==
    << Credit(from, 3),
       Let("fromBalance1", BalanceOf(from)),
       Let("toBalance1", BalanceOf(to)),
       Send(Transfer(from, to, 1)),
       Let("fromBalance2", BalanceOf(from)),
       Let("toBalance2", BalanceOf(to)) >>
    \o (IF from = to
        THEN << ExpectLocal("fromBalance2", Local("fromBalance1")) >>
        ELSE << ExpectLocal("fromBalance2", LocalMinus("fromBalance1", 1)),
                ExpectLocal("toBalance2", LocalPlus("toBalance1", 1)) >>)
    \o << Send(Transfer(from, to, 2)),
          Let("fromBalance3", BalanceOf(from)),
          Let("toBalance3", BalanceOf(to)) >>
    \o (IF from = to
        THEN << ExpectLocal("fromBalance3", Local("fromBalance2")) >>
        ELSE << ExpectLocal("fromBalance3", LocalMinus("fromBalance2", 2)),
                ExpectLocal("toBalance3", LocalPlus("toBalance2", 2)) >>)

transfer_shouldFireTransferEvent(from, to) ==
    transfer_testTransferEvent(from, to, 3)

transfer_shouldFireTransferEventWhenTransferringAmountOf0(from, to) ==
    transfer_testTransferEvent(from, to, 0)

(***************************************************************************)
(* describe('transferFrom(_from, _to, _value)').                           *)
(***************************************************************************)
transferFrom_testTransferEvent(from, via, to, n) ==
    (IF n > 0 THEN << Credit(from, n) >> ELSE <<>>)
    \o << Send(TransferFrom(from, via, to, n)),
          CheckLog("Transfer", from, to, n) >>

transferFrom_shouldRevertWhileNotAllowedAtAll ==
    << Credit(alice, 3),
       ExpectRevertOrFail(TransferFrom(alice, bob, bob, 1)),
       ExpectRevertOrFail(TransferFrom(alice, bob, charles, 1)) >>

\* the sender is approved before the zero transfer
transferFrom_shouldFireTransferEventAmountOf0NotApproved_approved ==
    << Send(Approve(alice, bob, 3)) >>
    \o transferFrom_testTransferEvent(alice, bob, bob, 0)

transferFrom_shouldFireTransferEventAmountOf0NotApproved ==
    transferFrom_testTransferEvent(alice, bob, bob, 0)

\* the nested beforeEach: by default approve sender (via) to transfer
transferFrom_beforeEach(from, via, to) == Approve(from, via, 3)

transferFrom_shouldReturnTrueAmountOf0Approved(from, via, to) ==
    << IsTrue(TransferFrom(from, via, to, 0)) >>

transferFrom_shouldReturnTrueAmountOf0NotApproved(from, via, to) ==
    << IsTrue(TransferFrom(to, via, from, 0)) >>

transferFrom_shouldReturnTrueWhenTransferCanBeMade(from, via, to) ==
    << Credit(from, 3),
       IsTrue(TransferFrom(from, via, to, 1)),
       IsTrue(TransferFrom(from, via, to, 2)),
       IsTrue(TransferFrom(from, via, to, 3)),
       Send(TransferFrom(from, via, to, 1)),
       IsTrue(TransferFrom(from, via, to, 1)),
       IsTrue(TransferFrom(from, via, to, 2)) >>

transferFrom_shouldRevertWhileFromHavingNothing(from, via, to) ==
    << ExpectRevertOrFail(TransferFrom(from, via, to, 1)) >>

transferFrom_shouldRevertMoreThanBalanceOfFrom(from, via, to) ==
    << Credit(from, 2),
       ExpectRevertOrFail(TransferFrom(from, via, to, 3)) >>

\* the credit stays below the amount, so the balance is short as well
transferFrom_shouldRevertMoreThanAllowed_shortCredit(from, via, to) ==
    << Credit(from, 3),
       ExpectRevertOrFail(TransferFrom(from, via, to, 4)) >>

transferFrom_shouldRevertMoreThanAllowed(from, via, to) ==
    << Credit(from, 4),
       ExpectRevertOrFail(TransferFrom(from, via, to, 4)) >>

transferFrom_shouldNotAffectTotalSupply(from, via, to) ==
    << Credit(from, 3),
       Let("supply1", TotalSupply),
       Send(TransferFrom(from, via, to, 3)),
       Let("supply2", TotalSupply),
       ExpectLocal("supply2", Local("supply1")) >>

transferFrom_shouldUpdateBalancesAccordingly(from, via, to) ==
    << Credit(from, 3),
       Let("fromBalance1", BalanceOf(from)),
       Let("viaBalance1", BalanceOf(via)),
       Let("toBalance1", BalanceOf(to)),
       Send(TransferFrom(from, via, to, 1)),
       Let("fromBalance2", BalanceOf(from)),
       Let("viaBalance2", BalanceOf(via)),
       Let("toBalance2", BalanceOf(to)) >>
    \o (IF from = to
        THEN << ExpectLocal("fromBalance2", Local("fromBalance1")) >>
        ELSE << ExpectLocal("fromBalance2", LocalMinus("fromBalance1", 1)),
                ExpectLocal("toBalance2", LocalPlus("toBalance1", 1)) >>)
    \o (IF via # from /\ via # to
        THEN << ExpectLocal("viaBalance2", Local("viaBalance1")) >>
        ELSE <<>>)
    \o << Send(TransferFrom(from, via, to, 2)),
          Let("fromBalance3", BalanceOf(from)),
          Let("viaBalance3", BalanceOf(via)),
          Let("toBalance3", BalanceOf(to)) >>
    \o (IF from = to
        THEN << ExpectLocal("fromBalance3", Local("fromBalance2")) >>
        ELSE << ExpectLocal("fromBalance3", LocalMinus("fromBalance2", 2)),
                ExpectLocal("toBalance3", LocalPlus("toBalance2", 2)) >>)
    \o (IF via # from /\ via # to
        THEN << ExpectLocal("viaBalance3", Local("viaBalance2")) >>
        ELSE <<>>)

\* the allowances are read and never compared
transferFrom_shouldUpdateAllowancesAccordingly_unchecked(from, via, to) ==
    << Credit(from, 3),
       Let("viaAllowance1", Allowance(from, via)),
       Let("toAllowance1", Allowance(from, to)),
       Send(TransferFrom(from, via, to, 2)),
       Let("viaAllowance2", Allowance(from, via)),
       Let("toAllowance2", Allowance(from, to)),
       Send(TransferFrom(from, via, to, 1)),
       Let("viaAllowance3", Allowance(from, via)),
       Let("toAllowance3", Allowance(from, to)) >>

transferFrom_shouldUpdateAllowancesAccordingly(from, via, to) ==
    << Credit(from, 3),
       Let("viaAllowance1", Allowance(from, via)),
       Let("toAllowance1", Allowance(from, to)),
       Send(TransferFrom(from, via, to, 2)),
       Let("viaAllowance2", Allowance(from, via)),
       Let("toAllowance2", Allowance(from, to)),
       ExpectLocal("viaAllowance2", LocalMinus("viaAllowance1", 2)) >>
    \o (IF to # via
        THEN << ExpectLocal("toAllowance2", Local("toAllowance1")) >>
        ELSE <<>>)
    \o << Send(TransferFrom(from, via, to, 1)),
          Let("viaAllowance3", Allowance(from, via)),
          Let("toAllowance3", Allowance(from, to)),
          ExpectLocal("viaAllowance3", LocalMinus("viaAllowance2", 1)) >>
    \o (IF to # via
        THEN << ExpectLocal("toAllowance3", Local("toAllowance1")) >>
        ELSE <<>>)

transferFrom_shouldFireTransferEvent(from, via, to) ==
    transferFrom_testTransferEvent(from, via, to, 3)

transferFrom_shouldFireTransferEventAmountOf0(from, via, to) ==
    transferFrom_testTransferEvent(from, via, to, 0)

(***************************************************************************)
(* describe('approvals'): the it callbacks of increaseApproval and         *)
(* decreaseApproval, all with owner alice and spender bob.                 *)
(***************************************************************************)
\* testApprovalEvent(from, to, fromAmount, byAmount) of increaseApproval
increaseApproval_testApprovalEvent(from, to, fromAmount, byAmount) ==
    << Send(IncreaseApproval(from, to, byAmount)),
       CheckLog("Approval", from, to, fromAmount + byAmount) >>

increaseApproval_shouldReturnTrueWhenIncreasingApproval ==
    << IsTrue(IncreaseApproval(alice, bob, 0)),
       IsTrue(IncreaseApprovalMax(alice, bob)),
       Send(IncreaseApproval(alice, bob, 3)),
       IsTrue(IncreaseApproval(alice, bob, 0)),
       IsTrue(IncreaseApproval(alice, bob, 3)) >>

\* the increase beyond the largest value is sent from an allowance of zero
increaseApproval_shouldRevertWhenApprovalCannotBeIncreased_fromZero ==
    << ExpectRevertOrFail(IncreaseApprovalMax(alice, bob)) >>

increaseApproval_shouldRevertWhenApprovalCannotBeIncreased ==
    << Send(IncreaseApproval(alice, bob, 1)),
       ExpectRevertOrFail(IncreaseApprovalMax(alice, bob)) >>

\* the allowance is never read back
increaseApproval_shouldUpdateAllowanceAccordingly_unchecked ==
    << Send(IncreaseApproval(alice, bob, 1)),
       Send(IncreaseApproval(alice, bob, 2)),
       Send(IncreaseApproval(alice, bob, 0)) >>

increaseApproval_shouldUpdateAllowanceAccordingly ==
    << Send(IncreaseApproval(alice, bob, 1)),
       Expect(Allowance(alice, bob), Tokens(1)),
       Send(IncreaseApproval(alice, bob, 2)),
       Expect(Allowance(alice, bob), Tokens(3)),
       Send(IncreaseApproval(alice, bob, 0)),
       Expect(Allowance(alice, bob), Tokens(3)) >>

increaseApproval_shouldFireApprovalEvent ==
    increaseApproval_testApprovalEvent(alice, bob, 0, 1)
    \o increaseApproval_testApprovalEvent(alice, bob, 1, 2)

increaseApproval_shouldFireApprovalEvenWhenAllowanceDidNotChange ==
    increaseApproval_testApprovalEvent(alice, bob, 0, 0)
    \o << Send(IncreaseApproval(alice, bob, 3)) >>
    \o increaseApproval_testApprovalEvent(alice, bob, 3, 0)

\* the nested beforeEach of decreaseApproval
decreaseApproval_beforeEach == Approve(alice, bob, 3)

\* testApprovalEvent(from, to, fromAmount, byAmount) of decreaseApproval
decreaseApproval_testApprovalEvent(from, to, fromAmount, byAmount) ==
    << Send(DecreaseApproval(from, to, byAmount)),
       CheckLog("Approval", from, to, fromAmount - byAmount) >>

decreaseApproval_shouldReturnTrueWhenDecreasingApproval ==
    << IsTrue(DecreaseApproval(alice, bob, 0)),
       IsTrue(DecreaseApproval(alice, bob, 3)) >>

\* the decrease stays within the allowance
decreaseApproval_shouldReturnTrueWhenApprovalCannotBeDecreased_within ==
    << IsTrue(DecreaseApproval(alice, bob, 3)) >>

decreaseApproval_shouldReturnTrueWhenApprovalCannotBeDecreased ==
    << IsTrue(DecreaseApprovalMax(alice, bob)) >>

decreaseApproval_shouldUpdateAllowanceAccordingly ==
    << Send(DecreaseApproval(alice, bob, 1)),
       Expect(Allowance(alice, bob), Tokens(2)),
       Send(DecreaseApproval(alice, bob, 3)),
       Expect(Allowance(alice, bob), Raw(0)),
       Send(DecreaseApproval(alice, bob, 0)),
       Expect(Allowance(alice, bob), Raw(0)) >>

decreaseApproval_shouldFireApprovalEvent ==
    decreaseApproval_testApprovalEvent(alice, bob, 3, 1)
    \o decreaseApproval_testApprovalEvent(alice, bob, 2, 2)

decreaseApproval_shouldFireApprovalEvenWhenAllowanceDidNotChange ==
    decreaseApproval_testApprovalEvent(alice, bob, 3, 0)
    \o << Send(DecreaseApproval(alice, bob, 3)) >>
    \o decreaseApproval_testApprovalEvent(alice, bob, 0, 0)

(***************************************************************************)
(* describe('ERC-20 optional')                                             *)
(***************************************************************************)
optional_name == << ExpectInfo("name") >>
optional_symbol == << ExpectInfo("symbol") >>
optional_decimals == << ExpectInfo("decimals") >>

(***************************************************************************)
(* The scenario catalog: every `it` of describe('ERC-20') with the role    *)
(* bindings of its describeIt call.                                        *)
(***************************************************************************)
Scn(name, from, via, to) == [name |-> name, from |-> from, via |-> via, to |-> to]

TopLevel(names) == {Scn(n, Undefined, Undefined, Undefined) : n \in names}

\* describeIt(when(...), from, to) of allowance, approve and transfer
PairVariants == {<<alice, bob>>, <<alice, alice>>}

\* the four describeIt(when(label), from, via, to) calls of transferFrom:
\* the label and the accounts passed as from, via (the caller) and to
transferFrom_describeIt ==
    {[label |-> "_from != _to and _to != sender", args |-> <<alice, bob, charles>>],
     [label |-> "_from != _to and _to == sender", args |-> <<alice, bob, bob>>],
     [label |-> "_from == _to and _to != sender", args |-> <<alice, alice, bob>>],
     [label |-> "_from == _to and _to == sender", args |-> <<alice, alice, alice>>]}

\* describeIt(when(...), from, via, to) of transferFrom
TripleVariants == {<<alice, bob, charles>>, <<alice, bob, bob>>,
                   <<alice, alice, bob>>, <<alice, alice, alice>>}

ApproveNames == {"approve: should return true when approving 0",
                 "approve: should return true when approving",
                 "approve: should return true when updating approval",
                 "approve: should return true when revoking approval",
                 "approve: should update allowance accordingly",
                 "approve: should fire Approval event",
                 "approve: should fire Approval when allowance was set to 0",
                 "approve: should fire Approval even when allowance did not change"}

TransferNames == {"transfer: should return true when called with amount of 0",
                  "transfer: should return true when transfer can be made, false otherwise",
                  "transfer: should revert when trying to transfer something while having nothing",
                  "transfer: should revert when trying to transfer more than balance",
                  "transfer: should not affect totalSupply",
                  "transfer: should update balances accordingly",
                  "transfer: should fire Transfer event",
                  "transfer: should fire Transfer event when transferring amount of 0"}

TransferFromNames ==
    {"transferFrom: should return true when called with amount of 0 and sender is approved",
     "transferFrom: should return true when called with amount of 0 and sender is not approved",
     "transferFrom: should return true when transfer can be made, false otherwise",
     "transferFrom: should revert when trying to transfer something while _from having nothing",
     "transferFrom: should revert when trying to transfer more than balance of _from",
     "transferFrom: should revert when trying to transfer more than allowed",
     "transferFrom: should not affect totalSupply",
     "transferFrom: should update balances accordingly",
     "transferFrom: should update allowances accordingly",
     "transferFrom: should fire Transfer event",
     "transferFrom: should fire Transfer event when transferring amount of 0"}

IncreaseApprovalNames ==
    {"increaseApproval: should return true when increasing approval",
     "increaseApproval: should revert when approval cannot be increased",
     "increaseApproval: should update allowance accordingly",
     "increaseApproval: should fire Approval event",
     "increaseApproval: should fire Approval even when allowance did not change"}

DecreaseApprovalNames ==
    {"decreaseApproval: should return true when decreasing approval",
     "decreaseApproval: should return true when approval cannot be decreased",
     "decreaseApproval: should update allowance accordingly",
     "decreaseApproval: should fire Approval event",
     "decreaseApproval: should fire Approval even when allowance did not change"}

\* describe('ERC-20')
Erc20Scenarios ==
    TopLevel({"totalSupply: should have initial supply",
              "totalSupply: should return the correct supply",
              "balanceOf: should have correct initial balances",
              "balanceOf: should return the correct balances",
              "allowance: should have correct initial allowance",
              "allowance: should return the correct allowance",
              "transferFrom: should revert when trying to transfer while not allowed at all",
              "transferFrom: should fire Transfer event when transferring amount of 0 and sender is not approved"})
    \cup {Scn("allowance: describeIt should return the correct allowance",
              v[1], Undefined, v[2]) : v \in PairVariants}
    \cup {Scn(n, v[1], Undefined, v[2]) : n \in ApproveNames, v \in PairVariants}
    \cup {Scn(n, v[1], Undefined, v[2]) : n \in TransferNames, v \in PairVariants}
    \cup {Scn(n, v[1], v[2], v[3]) : n \in TransferFromNames, v \in TripleVariants}

\* the checks of name, symbol and decimals registered whatever the options say
OptionalScenarios_ungated ==
    TopLevel({"name(): should return options.name",
              "symbol(): should return options.symbol",
              "decimals(): should return options.decimals"})

\* if (typeof options.name !== 'undefined') { it(...) }, and the same for
\* symbol and decimals
OptionalScenarios ==
    TopLevel((IF options.hasName
              THEN {"name(): should return options.name"} ELSE {})
             \cup (IF options.hasSymbol
                   THEN {"symbol(): should return options.symbol"} ELSE {})
             \cup (IF options.hasDecimals
                   THEN {"decimals(): should return options.decimals"} ELSE {}))

\* if (options.increaseDecreaseApproval) { describe('approvals', ...) }
ApprovalsScenarios ==
    IF options.increaseDecreaseApproval
    THEN TopLevel(IncreaseApprovalNames \cup DecreaseApprovalNames)
    ELSE {}

\* suite.js:372: the title of the first `it` calls initialSupply.toFormat(),
\* which a number does not have; suite() throws before any `it` is registered
Registers == ~options.supplyIsNumber

\* every `it` the suite registers
Scenarios ==
    IF Registers
    THEN Erc20Scenarios \cup OptionalScenarios \cup ApprovalsScenarios
    ELSE {}

NoScenario == Scn("none", Undefined, Undefined, Undefined)

\* the scenarios registered inside describeIt of transferFrom and inside
\* describe('decreaseApproval'), whose nested beforeEach runs before the body
HasNestedBeforeEach(s) ==
    s.name \in TransferFromNames \cup DecreaseApprovalNames

\* the call of the nested beforeEach of s
NestedCall(s) ==
    IF s.name \in DecreaseApprovalNames THEN decreaseApproval_beforeEach
    ELSE transferFrom_beforeEach(s.from, s.via, s.to)

Body(s) ==
    LET n == s.name  f == s.from  v == s.via  t == s.to IN
    CASE n = "totalSupply: should have initial supply" ->
            totalSupply_shouldHaveInitialSupply
      [] n = "totalSupply: should return the correct supply" ->
            totalSupply_shouldReturnTheCorrectSupply
      [] n = "balanceOf: should have correct initial balances" ->
            balanceOf_shouldHaveCorrectInitialBalances
      [] n = "balanceOf: should return the correct balances" ->
            balanceOf_shouldReturnTheCorrectBalances
      [] n = "allowance: should have correct initial allowance" ->
            allowance_shouldHaveCorrectInitialAllowance
      [] n = "allowance: should return the correct allowance" ->
            allowance_shouldReturnTheCorrectAllowance
      [] n = "allowance: describeIt should return the correct allowance" ->
            allowance_describeIt_shouldReturnTheCorrectAllowance(f, t)
      [] n = "approve: should return true when approving 0" ->
            approve_shouldReturnTrueWhenApproving0(f, t)
      [] n = "approve: should return true when approving" ->
            approve_shouldReturnTrueWhenApproving(f, t)
      [] n = "approve: should return true when updating approval" ->
            approve_shouldReturnTrueWhenUpdatingApproval(f, t)
      [] n = "approve: should return true when revoking approval" ->
            approve_shouldReturnTrueWhenRevokingApproval(f, t)
      [] n = "approve: should update allowance accordingly" ->
            approve_shouldUpdateAllowanceAccordingly(f, t)
      [] n = "approve: should fire Approval event" ->
            approve_shouldFireApprovalEvent(f, t)
      [] n = "approve: should fire Approval when allowance was set to 0" ->
            approve_shouldFireApprovalWhenAllowanceWasSetTo0(f, t)
      [] n = "approve: should fire Approval even when allowance did not change" ->
            approve_shouldFireApprovalEvenWhenAllowanceDidNotChange(f, t)
      [] n = "transfer: should return true when called with amount of 0" ->
            transfer_shouldReturnTrueWhenCalledWithAmountOf0(f, t)
      [] n = "transfer: should return true when transfer can be made, false otherwise" ->
            transfer_shouldReturnTrueWhenTransferCanBeMade(f, t)
      [] n = "transfer: should revert when trying to transfer something while having nothing" ->
            transfer_shouldRevertWhileHavingNothing(f, t)
      [] n = "transfer: should revert when trying to transfer more than balance" ->
            transfer_shouldRevertMoreThanBalance(f, t)
      [] n = "transfer: should not affect totalSupply" ->
            transfer_shouldNotAffectTotalSupply(f, t)
      [] n = "transfer: should update balances accordingly" ->
            transfer_shouldUpdateBalancesAccordingly(f, t)
      [] n = "transfer: should fire Transfer event" ->
            transfer_shouldFireTransferEvent(f, t)
      [] n = "transfer: should fire Transfer event when transferring amount of 0" ->
            transfer_shouldFireTransferEventWhenTransferringAmountOf0(f, t)
      [] n = "transferFrom: should revert when trying to transfer while not allowed at all" ->
            transferFrom_shouldRevertWhileNotAllowedAtAll
      [] n = "transferFrom: should fire Transfer event when transferring amount of 0 and sender is not approved" ->
            transferFrom_shouldFireTransferEventAmountOf0NotApproved
      [] n = "transferFrom: should return true when called with amount of 0 and sender is approved" ->
            transferFrom_shouldReturnTrueAmountOf0Approved(f, v, t)
      [] n = "transferFrom: should return true when called with amount of 0 and sender is not approved" ->
            transferFrom_shouldReturnTrueAmountOf0NotApproved(f, v, t)
      [] n = "transferFrom: should return true when transfer can be made, false otherwise" ->
            transferFrom_shouldReturnTrueWhenTransferCanBeMade(f, v, t)
      [] n = "transferFrom: should revert when trying to transfer something while _from having nothing" ->
            transferFrom_shouldRevertWhileFromHavingNothing(f, v, t)
      [] n = "transferFrom: should revert when trying to transfer more than balance of _from" ->
            transferFrom_shouldRevertMoreThanBalanceOfFrom(f, v, t)
      [] n = "transferFrom: should revert when trying to transfer more than allowed" ->
            transferFrom_shouldRevertMoreThanAllowed(f, v, t)
      [] n = "transferFrom: should not affect totalSupply" ->
            transferFrom_shouldNotAffectTotalSupply(f, v, t)
      [] n = "transferFrom: should update balances accordingly" ->
            transferFrom_shouldUpdateBalancesAccordingly(f, v, t)
      [] n = "transferFrom: should update allowances accordingly" ->
            transferFrom_shouldUpdateAllowancesAccordingly(f, v, t)
      [] n = "transferFrom: should fire Transfer event" ->
            transferFrom_shouldFireTransferEvent(f, v, t)
      [] n = "transferFrom: should fire Transfer event when transferring amount of 0" ->
            transferFrom_shouldFireTransferEventAmountOf0(f, v, t)
      [] n = "increaseApproval: should return true when increasing approval" ->
            increaseApproval_shouldReturnTrueWhenIncreasingApproval
      [] n = "increaseApproval: should revert when approval cannot be increased" ->
            increaseApproval_shouldRevertWhenApprovalCannotBeIncreased
      [] n = "increaseApproval: should update allowance accordingly" ->
            increaseApproval_shouldUpdateAllowanceAccordingly
      [] n = "increaseApproval: should fire Approval event" ->
            increaseApproval_shouldFireApprovalEvent
      [] n = "increaseApproval: should fire Approval even when allowance did not change" ->
            increaseApproval_shouldFireApprovalEvenWhenAllowanceDidNotChange
      [] n = "decreaseApproval: should return true when decreasing approval" ->
            decreaseApproval_shouldReturnTrueWhenDecreasingApproval
      [] n = "decreaseApproval: should return true when approval cannot be decreased" ->
            decreaseApproval_shouldReturnTrueWhenApprovalCannotBeDecreased
      [] n = "decreaseApproval: should update allowance accordingly" ->
            decreaseApproval_shouldUpdateAllowanceAccordingly
      [] n = "decreaseApproval: should fire Approval event" ->
            decreaseApproval_shouldFireApprovalEvent
      [] n = "decreaseApproval: should fire Approval even when allowance did not change" ->
            decreaseApproval_shouldFireApprovalEvenWhenAllowanceDidNotChange
      [] n = "name(): should return options.name" ->
            optional_name
      [] n = "symbol(): should return options.symbol" ->
            optional_symbol
      [] n = "decimals(): should return options.decimals" ->
            optional_decimals
      [] OTHER -> <<>>

(***************************************************************************)
(* The runner.                                                             *)
(***************************************************************************)
Kind == options.token.kind

body == Body(scenario)
stmt == body[pc]

\* the call of a statement with its amount scaled
\* an account the options do not have is `undefined`: where the call goes
\* through, it is encoded as the zero address
Addr(a) == IF a = Undefined THEN ZeroAddress ELSE a

UsesUndefined(call) == Undefined \in {call.sender, call.src, call.dst}

UsesUndefinedQuery(query) ==
    \/ query.q = "balanceOf" /\ query.a = Undefined
    \/ query.q = "allowance" /\ Undefined \in {query.a, query.b}

\* what a call with an undefined account can do: nothing in the suite
\* decides whether the client library throws or sends it
EnvOutcomes(undefined) ==
    IF undefined THEN {"throws", "proceeds"} ELSE {"proceeds"}

TxOf(call) ==
    Tx(call.fn, Addr(call.sender), Addr(call.src), Addr(call.dst),
       IF call.max THEN uintMax ELSE tokens(call.tok))

\* the instance after a committed call
Applied(tk, r) == [tk EXCEPT !.bal = r.bal, !.allowed = r.allowed,
                             !.supply = r.supply]

\* token.totalSupply.call(), token.balanceOf.call(a), token.allowance.call(a, b)
Read(tk, query) ==
    CASE query.q = "totalSupply" -> tk.supply
      [] query.q = "balanceOf" -> tk.bal[Addr(query.a)]
      [] query.q = "allowance" -> tk.allowed[<<Addr(query.a), Addr(query.b)>>]

Eval(expr) ==
    (CASE expr.base = "zero" -> 0
       [] expr.base = "initialSupply" -> initialSupply
       [] OTHER -> locals[expr.base])
    + tokens(expr.tok) + expr.raw

\* the statement completed: go on with the next one, or the body is over
Advance ==
    /\ pc' = pc + 1
    /\ IF pc = Len(body)
       THEN phase' = "afterEach" /\ verdict' = "passed"
       ELSE phase' = phase /\ verdict' = verdict

\* the statement threw: the scenario is failed
Throw ==
    /\ pc' = pc
    /\ phase' = "afterEach"
    /\ verdict' = "failed"

\* the mocha runner takes the next `it`
Pick ==
    /\ phase = "idle"
    /\ created < MaxScenarios
    /\ \E s \in Scenarios : scenario' = s
    /\ phase' = "beforeEach"
    /\ pc' = 1
    /\ locals' = NoLocals
    /\ result' = <<>>
    /\ verdict' = "running"
    /\ promise' = NoPromise
    /\ outcome' = "none"
    /\ UNCHANGED <<options, token, decimals, created, leftDirty, pendingHooks,
                   helper>>

\* where the runner goes once the outer beforeEach is through
AfterOuterBeforeEach ==
    IF HasNestedBeforeEach(scenario) THEN phase' = "nested" /\ verdict' = verdict
    ELSE IF Len(body) = 0 THEN phase' = "afterEach" /\ verdict' = "passed"
    ELSE phase' = "body" /\ verdict' = verdict

\* suite.js:356-357: the hook calls createToken() and waits for the instance
BeforeEach ==
    /\ phase = "beforeEach"
    /\ IF options.token = NoFactory
       THEN \* createToken is undefined: the call throws a TypeError
            created' = created /\ phase' = "afterEach" /\ verdict' = "failed"
       ELSE created' = created + 1 /\ phase' = "creating" /\ verdict' = verdict
    /\ UNCHANGED <<options, token, decimals, scenario, pc, locals, result,
                   leftDirty, pendingHooks, promise, helper, outcome>>

\* suite.js:357-358: the instance is assigned to `token` and the hook calls
\* token.decimals.call() and waits for the value
BeforeEachTokenCreated ==
    /\ phase = "creating"
    /\ token' = createToken(token, created)
    /\ IF ~options.token.hasDecimals
       THEN \* token.decimals is undefined: `.call` throws a TypeError
            phase' = "afterEach" /\ verdict' = "failed"
       ELSE phase' = "decimals" /\ verdict' = verdict
    /\ UNCHANGED <<options, decimals, scenario, pc, locals, result, created,
                   leftDirty, pendingHooks, promise, helper, outcome>>

\* suite.js:358-362: the value is assigned to `decimals` and
\* options.beforeEach(token) is called
BeforeEachDecimalsRead ==
    /\ phase = "decimals"
    /\ decimals' = options.token.decimals
    /\ pendingHooks' = IF options.beforeEach
                       THEN pendingHooks \cup {<<"beforeEach", token.id>>}
                       ELSE pendingHooks
    /\ AfterOuterBeforeEach
    /\ UNCHANGED <<options, token, scenario, pc, locals, result, created,
                   leftDirty, promise, helper, outcome>>

\* suite.js:638-641 and suite.js:853-855
NestedBeforeEach ==
    /\ phase = "nested"
    /\ LET r == Exec(token, Kind, TxOf(NestedCall(scenario)))
       IN  IF r.ok
           THEN /\ token' = Applied(token, r)
                /\ phase' = "body"
                /\ verdict' = verdict
           ELSE /\ token' = Applied(token, r)
                /\ phase' = "afterEach"
                /\ verdict' = "failed"
    /\ UNCHANGED <<options, decimals, scenario, pc, locals, result, created,
                   leftDirty, pendingHooks, promise, helper, outcome>>

\* await purchase(to, tokens(n))
StepPurchase ==
    /\ phase = "body" /\ stmt.op = "purchase"
    /\ IF options.purchase = Undefined
       THEN \* options.purchase is undefined: the call throws a TypeError
            token' = token /\ Throw
       ELSE LET r == Exec(token, Kind, purchase(stmt.to, tokens(stmt.tok)))
            IN  /\ token' = Applied(token, r)
                /\ IF r.ok THEN Advance ELSE Throw
    /\ UNCHANGED <<options, decimals, scenario, locals, result, created,
                   leftDirty, pendingHooks, promise, helper, outcome>>

\* the simulated call is committed
StepIsTrue_commits ==
    /\ phase = "body" /\ stmt.op = "isTrue"
    /\ \E env \in EnvOutcomes(UsesUndefined(stmt.call)) :
          LET r == Exec(token, Kind, TxOf(stmt.call))
          IN  IF env = "proceeds" /\ r.ok
              THEN token' = Applied(token, r) /\ Advance
              ELSE token' = token /\ Throw
    /\ UNCHANGED <<options, decimals, scenario, locals, result, created,
                   leftDirty, pendingHooks, promise, helper, outcome>>

\* assert.isTrue(await token.fn.call(...))
StepIsTrue ==
    /\ phase = "body" /\ stmt.op = "isTrue"
    /\ \E env \in EnvOutcomes(UsesUndefined(stmt.call)) :
          IF env = "proceeds" /\ Exec(token, Kind, TxOf(stmt.call)).ok
          THEN Advance ELSE Throw
    /\ UNCHANGED <<options, token, decimals, scenario, locals, result, created,
                   leftDirty, pendingHooks, promise, helper, outcome>>

\* [let result =] await token.fn(...)
StepSend ==
    /\ phase = "body" /\ stmt.op = "send"
    /\ \E env \in EnvOutcomes(UsesUndefined(stmt.call)) :
          LET r == Exec(token, Kind, TxOf(stmt.call))
          IN  IF env = "proceeds" /\ r.ok
              THEN token' = Applied(token, r) /\ result' = r.logs /\ Advance
              ELSE /\ token' = IF env = "proceeds" THEN Applied(token, r)
                               ELSE token
                   /\ result' = result
                   /\ Throw
    /\ UNCHANGED <<options, decimals, scenario, locals, created, leftDirty,
                   pendingHooks, promise, helper, outcome>>

\* await expectRevertOrFail(token.fn(...))
StepExpectRevertOrFail ==
    /\ phase = "body" /\ stmt.op = "expectRevertOrFail"
    /\ \E env \in EnvOutcomes(UsesUndefined(stmt.call)) :
          LET r == IF env = "proceeds" THEN Exec(token, Kind, TxOf(stmt.call))
                   ELSE Reverted(token)
              p == IF env = "proceeds" THEN Settled(token, Kind, TxOf(stmt.call))
                   ELSE Rejected(S_invalid_address)
          IN  /\ token' = Applied(token, r)
              /\ promise' = p
              /\ helper' = "expectRevertOrFail"
              /\ outcome' = expectRevertOrFail(p)
              /\ IF expectRevertOrFail(p) = Returned THEN Advance ELSE Throw
    /\ UNCHANGED <<options, decimals, scenario, locals, result, created,
                   leftDirty, pendingHooks>>

\* let name = await token.query.call(...)
StepLet ==
    /\ phase = "body" /\ stmt.op = "let"
    /\ \E env \in EnvOutcomes(UsesUndefinedQuery(stmt.query)) :
          IF env = "proceeds"
          THEN /\ locals' = [locals EXCEPT ![stmt.name] = Read(token, stmt.query)]
               /\ Advance
          ELSE locals' = locals /\ Throw
    /\ UNCHANGED <<options, token, decimals, scenario, result, created,
                   leftDirty, pendingHooks, promise, helper, outcome>>

\* expect(await token.query.call(...)).to.be.bignumber.equal(expr)
StepExpect ==
    /\ phase = "body" /\ stmt.op = "expect"
    /\ \E env \in EnvOutcomes(UsesUndefinedQuery(stmt.query)) :
          IF env = "proceeds" /\ Read(token, stmt.query) = Eval(stmt.expr)
          THEN Advance ELSE Throw
    /\ UNCHANGED <<options, token, decimals, scenario, locals, result, created,
                   leftDirty, pendingHooks, promise, helper, outcome>>

\* expect(name).to.be.bignumber.equal(expr)
StepExpectLocal ==
    /\ phase = "body" /\ stmt.op = "expectLocal"
    /\ IF locals[stmt.name] = Eval(stmt.expr) THEN Advance ELSE Throw
    /\ UNCHANGED <<options, token, decimals, scenario, locals, result, created,
                   leftDirty, pendingHooks, promise, helper, outcome>>

\* assert.equal(await token.name.call(), options.name), the same for symbol,
\* and expect(await token.decimals.call()).to.be.bignumber.equal(options.decimals)
StepExpectInfo ==
    /\ phase = "body" /\ stmt.op = "expectInfo"
    /\ IF options.token[stmt.key] = options[stmt.key] THEN Advance ELSE Throw
    /\ UNCHANGED <<options, token, decimals, scenario, locals, result, created,
                   leftDirty, pendingHooks, promise, helper, outcome>>

\* let log = result.logs[0] and the assertions on its name and arguments
LogMatches(logs, event, a, b, v) ==
    /\ Len(logs) > 0
    /\ logs[1].event = event
    /\ logs[1].arg1 = a
    /\ logs[1].arg2 = b
    /\ logs[1].value = v

StepCheckLog ==
    /\ phase = "body" /\ stmt.op = "checkLog"
    /\ IF LogMatches(result, stmt.event, stmt.arg1, stmt.arg2, tokens(stmt.tok))
       THEN Advance ELSE Throw
    /\ UNCHANGED <<options, token, decimals, scenario, locals, result, created,
                   leftDirty, pendingHooks, promise, helper, outcome>>

\* suite.js:364-368
AfterEach ==
    /\ phase = "afterEach"
    /\ pendingHooks' = IF options.afterEach
                       THEN pendingHooks \cup {<<"afterEach", token.id>>}
                       ELSE pendingHooks
    /\ leftDirty' = (leftDirty \/ Ledger(token) # Ledger(Deploy(token.id)))
    /\ phase' = "idle"
    /\ UNCHANGED <<options, token, decimals, scenario, pc, locals, result,
                   verdict, created, promise, helper, outcome>>

\* a hook callback that was called without await runs to its end
HookCompletes ==
    /\ \E h \in pendingHooks : pendingHooks' = pendingHooks \ {h}
    /\ UNCHANGED <<options, token, decimals, phase, scenario, pc, locals,
                   result, verdict, created, leftDirty, promise, helper,
                   outcome>>

\* suite.js:336-354, whatever the options are
Constructed ==
    /\ token = Null
    /\ decimals = 0
    /\ phase = "idle"
    /\ scenario = NoScenario
    /\ pc = 1
    /\ locals = NoLocals
    /\ result = <<>>
    /\ verdict = "none"
    /\ created = 0
    /\ leftDirty = FALSE
    /\ pendingHooks = {}
    /\ promise = NoPromise
    /\ helper = "expectRevertOrFail"
    /\ outcome = "none"

Init == options \in Configs /\ Constructed

\* accounts[3] does not exist
ThreeAccounts == [i \in 0..2 |-> FourAccounts[i]]

InitFewAccounts ==
    /\ options \in {[c EXCEPT !.accounts = ThreeAccounts] : c \in Configs}
    /\ Constructed

Next ==
    \/ Pick
    \/ BeforeEach
    \/ BeforeEachTokenCreated
    \/ BeforeEachDecimalsRead
    \/ NestedBeforeEach
    \/ StepPurchase
    \/ StepIsTrue
    \/ StepSend
    \/ StepExpectRevertOrFail
    \/ StepLet
    \/ StepExpect
    \/ StepExpectLocal
    \/ StepExpectInfo
    \/ StepCheckLog
    \/ AfterEach
    \/ HookCompletes

Spec == Init /\ [][Next]_vars

SpecFewAccounts == InitFewAccounts /\ [][Next]_vars

(***************************************************************************)
(* The helpers on their own: a settled promise is handed to one of the two *)
(* exported helpers.                                                       *)
(***************************************************************************)
InitExpect ==
    /\ options = BaseOptions
    /\ token = Null
    /\ decimals = 0
    /\ phase = "idle"
    /\ scenario = NoScenario
    /\ pc = 1
    /\ locals = NoLocals
    /\ result = <<>>
    /\ verdict = "none"
    /\ created = 0
    /\ leftDirty = FALSE
    /\ pendingHooks = {}
    /\ promise \in Promises
    /\ helper \in {"expectRevert", "expectRevertOrFail"}
    /\ outcome = "none"

CallExpectRevert ==
    /\ outcome = "none" /\ helper = "expectRevert"
    /\ outcome' = expectRevert(promise)
    /\ UNCHANGED <<suiteVars, promise, helper>>

CallExpectRevertOrFail ==
    /\ outcome = "none" /\ helper = "expectRevertOrFail"
    /\ outcome' = expectRevertOrFail(promise)
    /\ UNCHANGED <<suiteVars, promise, helper>>

NextExpect == CallExpectRevert \/ CallExpectRevertOrFail

SpecExpect == InitExpect /\ [][NextExpect]_vars

(***************************************************************************)
(* Properties.                                                             *)
(***************************************************************************)
Finished == phase \in {"afterEach", "idle"} /\ scenario # NoScenario
Passed == Finished /\ verdict = "passed"
\* the credit callback can pay the credits of a scenario, 6 tokens at most
Funded ==
    \/ options.purchase = "mint"
    \/ /\ options.purchase = "transfer"
       /\ options.token.bal[Owner] >= 6 * Pow10(options.token.decimals)
Named(n) == scenario.name = n
SelfVariant == scenario.from = scenario.to
\* statements 1..k of the body have completed without throwing
Completed(k) == (phase = "body" /\ pc > k) \/ (Passed /\ pc > k)

\* pat occurs in s
Contains(s, pat) ==
    \E i \in 0..(Len(s) - Len(pat)) : SubSeq(s, i + 1, i + Len(pat)) = pat

\* C1: expectRevertOrFail(p) returns normally exactly when awaiting p throws
\* an error whose message contains 'revert' or 'invalid opcode'; when p
\* resolves it fails with 'Expected revert not received.', and when p throws
\* a message with neither substring it fails as well.
C1_ExpectRevertOrFail ==
    (helper = "expectRevertOrFail" /\ outcome # "none") =>
        /\ (outcome = Returned) <=>
              /\ promise.settled = "rejected"
              /\ promise.hasMessage
              /\ \/ Contains(promise.message, S_revert)
                 \/ Contains(promise.message, S_invalid_opcode)
        /\ promise.settled = "resolved" => outcome = FailNotReceived
        /\ outcome \in {Returned, FailNotReceived, FailGotInstead, FailTypeError}

C1_Witness ==
    /\ helper = "expectRevertOrFail"
    /\ outcome = Returned
    /\ Contains(promise.message, S_invalid_opcode)
    /\ ~Contains(promise.message, S_revert)

\* C2: every scenario body runs on the instance returned by the factory call
\* of its own beforeEach, and at the start of the body the balances,
\* allowances and total supply are those of a freshly deployed token, plus
\* only the default approval of the enclosing transferFrom group.
StartLedger(s) ==
    LET fresh == Deploy(created)
    IN  IF HasNestedBeforeEach(s)
        THEN Ledger(Applied(fresh, Exec(fresh, Kind, TxOf(NestedCall(s)))))
        ELSE Ledger(fresh)

C2_FreshInstancePerScenario ==
    /\ phase = "nested" =>
          token.id = created /\ Ledger(token) = Ledger(Deploy(created))
    /\ (phase = "body" /\ pc = 1) =>
          token.id = created /\ Ledger(token) = StartLedger(scenario)

C2_Witness ==
    /\ created = 2
    /\ leftDirty
    /\ phase = "body" /\ pc = 1
    /\ HasNestedBeforeEach(scenario)
    /\ token.allowed[<<scenario.from, scenario.via>>] = tokens(3)

\* C3: with the credit callback implemented as a transfer from accounts[0],
\* which holds the initial supply, a conforming token passes every scenario,
\* 'totalSupply: should return the correct supply' included.
C3_TransferCreditPassesEveryScenario ==
    (Finished /\ options.purchase = "transfer" /\ Kind = "conforming") =>
        verdict = "passed"

\* C4: a conforming token whose first or second participant holds a
\* non-zero configured initial balance passes 'should return the correct
\* balances': the balance is required to have grown by the credited amount.
C4_CreditIsRelativeToInitialBalance ==
    (Finished /\ Named("balanceOf: should return the correct balances")
       /\ Kind = "conforming" /\ options.purchase = "mint") =>
        verdict = "passed"

\* C5: approve overwrites: in 'should update allowance accordingly' the
\* allowance after the approvals of 1, 3 and 0 is 1, 3 and 0, never a sum of
\* earlier approvals; a token whose approve accumulates fails the scenario,
\* and the reference token passes it.
C5_ApproveOverwrites ==
    Named("approve: should update allowance accordingly") =>
        LET a == token.allowed[<<scenario.from, scenario.to>>]
        IN  /\ (Completed(2) /\ pc = 3) => a = tokens(1)
            /\ (Completed(4) /\ pc = 5) => a = tokens(3)
            /\ Passed => a = 0
            /\ (Finished /\ Kind = "additiveApprove") => verdict = "failed"
            /\ (Finished /\ Kind = "conforming") => verdict = "passed"

C5_Witness ==
    /\ Named("approve: should update allowance accordingly")
    /\ Kind = "additiveApprove"
    /\ Finished /\ verdict = "failed" /\ pc = 4
    /\ token.allowed[<<scenario.from, scenario.to>>] = tokens(4)

\* C6: every committed approve emits Approval(owner, spender, value) with the
\* new absolute value, also when the allowance does not change (0 to 0 on a
\* fresh instance, 3 to 3) and when it is revoked to 0, for spender # owner
\* and spender = owner; a token that omits the event when the value is
\* unchanged fails the suite.
ApprovalEventScenarios ==
    {"approve: should fire Approval event",
     "approve: should fire Approval when allowance was set to 0",
     "approve: should fire Approval even when allowance did not change"}

C6_ApprovalAlwaysEmitted ==
    scenario.name \in ApprovalEventScenarios =>
        /\ \A k \in 1..Len(body) :
              (body[k].op = "checkLog" /\ Completed(k) /\ pc = k + 1) =>
                  /\ result[1] = Event("Approval", body[k].arg1, body[k].arg2,
                                       tokens(body[k].tok))
                  /\ token.allowed[<<body[k].arg1, body[k].arg2>>]
                        = tokens(body[k].tok)
        /\ (Finished /\ Kind = "quietApprove"
              /\ Named("approve: should fire Approval even when allowance did not change"))
              => verdict = "failed"
        /\ (Finished /\ Kind = "conforming") => verdict = "passed"

C6_Witness ==
    /\ Named("approve: should fire Approval even when allowance did not change")
    /\ SelfVariant
    /\ Passed
    /\ result = <<Event("Approval", scenario.from, scenario.from, tokens(3))>>

\* C7: a transfer of amount zero succeeds (the simulated call reports true)
\* and its commit emits Transfer(sender, recipient, 0), also when the
\* sender's balance is zero and when sender equals recipient.
C7_ZeroTransferSucceeds ==
    /\ Named("transfer: should return true when called with amount of 0") =>
          /\ (Finished /\ Kind = "zeroTransferReverts") => verdict = "failed"
          /\ (Finished /\ Kind = "conforming") => verdict = "passed"
    /\ Named("transfer: should fire Transfer event when transferring amount of 0") =>
          /\ Passed => result[1] = Event("Transfer", scenario.from, scenario.to, 0)
          /\ (Finished /\ Kind \in {"zeroTransferReverts", "quietZeroTransfer"})
                => verdict = "failed"
          /\ (Finished /\ Kind = "conforming") => verdict = "passed"

C7_Witness ==
    /\ Named("transfer: should fire Transfer event when transferring amount of 0")
    /\ SelfVariant
    /\ Passed
    /\ token.bal[scenario.from] = 0
    /\ result = <<Event("Transfer", scenario.from, scenario.from, 0)>>

\* C8: a committed transfer of more than the sender's balance is rejected,
\* from a zero balance and after the balance was reduced by an earlier
\* transfer (credit 3, transfer 1 away, a transfer of 3 is rejected), for a
\* recipient other than the sender and for the sender itself.
C8_TransferBeyondBalanceRejected ==
    /\ Named("transfer: should revert when trying to transfer something while having nothing") =>
          /\ Passed => /\ promise.settled = "rejected"
                       /\ token.bal[scenario.from] < tokens(1)
          /\ (Finished /\ Kind = "uncheckedSelfTransfer" /\ SelfVariant)
                => verdict = "failed"
          /\ (Finished /\ Kind = "conforming"
                /\ options.token.bal[scenario.from] = 0) => verdict = "passed"
    /\ Named("transfer: should revert when trying to transfer more than balance") =>
          /\ Passed => /\ promise.settled = "rejected"
                       /\ token.bal[scenario.from] = tokens(2)
          /\ (Finished /\ Kind = "uncheckedSelfTransfer" /\ SelfVariant)
                => verdict = "failed"
          /\ (Finished /\ Funded /\ Kind = "conforming"
                /\ options.token.bal[scenario.from] = 0) => verdict = "passed"

C8_Witness ==
    /\ Named("transfer: should revert when trying to transfer more than balance")
    /\ SelfVariant
    /\ Passed
    /\ pc = 5
    /\ token.bal[scenario.from] = tokens(2)
    /\ token.bal[Aux] = tokens(1)

\* C9: a transfer to oneself of an amount within the balance leaves the
\* sender's balance unchanged, after one and after two such transfers, and
\* still emits Transfer(self, self, N) with the nominal amount.
C9_SelfTransferKeepsBalance ==
    /\ (Named("transfer: should update balances accordingly") /\ SelfVariant) =>
          /\ Passed => /\ locals["fromBalance2"] = locals["fromBalance1"]
                       /\ locals["fromBalance3"] = locals["fromBalance1"]
                       /\ token.bal[scenario.from] = locals["fromBalance1"]
          /\ (Finished /\ Kind = "selfTransferMints") => verdict = "failed"
          /\ (Finished /\ Funded /\ Kind = "conforming") => verdict = "passed"
    /\ (Named("transfer: should fire Transfer event") /\ SelfVariant) =>
          /\ Passed => result[1] = Event("Transfer", scenario.from,
                                         scenario.from, tokens(3))
          /\ (Finished /\ Funded /\ Kind = "conforming") => verdict = "passed"

C9_Witness ==
    /\ Named("transfer: should update balances accordingly")
    /\ SelfVariant
    /\ Passed
    /\ locals["fromBalance1"] = tokens(3)
    /\ locals["fromBalance3"] = tokens(3)
    /\ result = <<Event("Transfer", scenario.from, scenario.from, tokens(2))>>

\* C10: a successful transfer of v between two distinct accounts takes
\* exactly v from the sender and gives exactly v to the recipient; total
\* supply is the same after a successful transfer and a successful
\* transferFrom, in every role variant.
C10_TransferMovesExactly ==
    /\ (Named("transfer: should update balances accordingly") /\ ~SelfVariant) =>
          /\ Passed =>
                /\ locals["fromBalance2"] = locals["fromBalance1"] - tokens(1)
                /\ locals["toBalance2"] = locals["toBalance1"] + tokens(1)
                /\ locals["fromBalance3"] = locals["fromBalance2"] - tokens(2)
                /\ locals["toBalance3"] = locals["toBalance2"] + tokens(2)
          /\ (Finished /\ Kind = "feeOnTransfer") => verdict = "failed"
          /\ (Finished /\ Funded /\ Kind = "conforming") => verdict = "passed"
    /\ scenario.name \in {"transfer: should not affect totalSupply",
                          "transferFrom: should not affect totalSupply"} =>
          /\ Passed => /\ locals["supply2"] = locals["supply1"]
                       /\ token.supply = locals["supply1"]
          /\ (Finished /\ Kind = "feeOnTransfer") => verdict = "failed"
          /\ (Finished /\ Funded /\ Kind = "conforming") => verdict = "passed"

C10_Witness ==
    /\ Named("transferFrom: should not affect totalSupply")
    /\ scenario.from # scenario.via /\ scenario.via # scenario.to
    /\ scenario.from # scenario.to
    /\ Passed
    /\ token.bal[scenario.to] = tokens(3)
    /\ token.supply = locals["supply1"]

\* C11: a successful transferFrom(from, to, v) sent by s lowers
\* allowance(from, s) by exactly v (3 becomes 1 after 2, then 0 after 1; it
\* is not reset while a remainder exists) in every role variant, those where
\* from, to and s coincide included, and leaves allowance(from, to) as it
\* was whenever to # s.
C11_TransferFromDebitsAllowance ==
    Named("transferFrom: should update allowances accordingly") =>
        /\ Passed =>
              /\ locals["viaAllowance1"] = tokens(3)
              /\ locals["viaAllowance2"] = tokens(1)
              /\ locals["viaAllowance3"] = 0
              /\ token.allowed[<<scenario.from, scenario.via>>] = 0
              /\ scenario.to # scenario.via =>
                    /\ locals["toAllowance2"] = locals["toAllowance1"]
                    /\ locals["toAllowance3"] = locals["toAllowance1"]
        /\ (Finished /\ Kind = "resetsAllowance") => verdict = "failed"
        /\ (Finished /\ Kind = "ownerSpendsFreely"
              /\ scenario.via = scenario.from) => verdict = "failed"
        /\ (Finished /\ Funded /\ Kind = "conforming") => verdict = "passed"

C11_Witness ==
    /\ Named("transferFrom: should update allowances accordingly")
    /\ scenario.from = scenario.via /\ scenario.via = scenario.to
    /\ Passed
    /\ locals["viaAllowance2"] = tokens(1)
    /\ token.allowed[<<scenario.from, scenario.via>>] = 0

\* C12: a transferFrom of amount zero succeeds even when the caller holds
\* no allowance from the source and the source holds no balance: the
\* simulated call reports true and the commit emits Transfer(from, to, 0).
C12_ZeroTransferFromSucceeds ==
    /\ Named("transferFrom: should fire Transfer event when transferring amount of 0 and sender is not approved") =>
          /\ Passed => /\ result[1] = Event("Transfer", alice, bob, 0)
                       /\ token.allowed[<<alice, bob>>] = 0
                       /\ token.bal[alice] = options.token.bal[alice]
          /\ (Finished /\ Kind = "zeroNeedsAllowance") => verdict = "failed"
          /\ (Finished /\ Kind = "conforming") => verdict = "passed"
    /\ ( /\ Named("transferFrom: should return true when called with amount of 0 and sender is not approved")
         /\ scenario.to # scenario.from ) =>
          /\ Passed => /\ token.allowed[<<scenario.to, scenario.via>>] = 0
                       /\ Ledger(token) = StartLedger(scenario)
          /\ (Finished /\ Kind = "zeroNeedsAllowance") => verdict = "failed"
          /\ (Finished /\ Kind = "conforming") => verdict = "passed"

C12_Witness ==
    /\ Named("transferFrom: should fire Transfer event when transferring amount of 0 and sender is not approved")
    /\ Passed
    /\ token.allowed[<<alice, bob>>] = 0
    /\ token.bal[alice] = 0
    /\ result = <<Event("Transfer", alice, bob, 0)>>

\* statement k of the body of s expects the rejection of a transferFrom with
\* the roles v = (from, via, to) while no approval precedes it
RejectsWithoutAllowance(s, v) ==
    /\ ~HasNestedBeforeEach(s)
    /\ \E k \in 1..Len(Body(s)) :
          LET st == Body(s)[k] IN
          /\ st.op = "expectRevertOrFail"
          /\ st.call.fn = "transferFrom"
          /\ <<st.call.src, st.call.sender, st.call.dst>> = v
          /\ \A j \in 1..(k - 1) : Body(s)[j].op # "send"

\* C13 as stated: in every role variant the suite requires the rejection of
\* a transferFrom for which no allowance was ever granted.
C13_AbsentAllowanceRejectedInEveryVariant ==
    Registers =>
        \A v \in TripleVariants :
            \E s \in Scenarios : RejectsWithoutAllowance(s, v)

\* C13 (amended): rejection on a short balance (allowance 3; amount 1 from
\* nothing, amount 3 after a credit of 2) and on a short allowance (amount 4
\* after a credit of 4, allowance 3) is required in every role variant;
\* rejection on an allowance that was never granted is required only outside
\* the role variants, for source alice and caller bob with recipient bob and
\* recipient charles.  In each rejection exactly one precondition is violated.
C13_RejectionCauses ==
    /\ Named("transferFrom: should revert when trying to transfer something while _from having nothing") =>
          /\ Passed => /\ promise.settled = "rejected"
                       /\ token.bal[scenario.from] < tokens(1)
                       /\ token.allowed[<<scenario.from, scenario.via>>] >= tokens(1)
          /\ (Finished /\ Kind = "uncheckedSelfTransfer" /\ SelfVariant)
                => verdict = "failed"
          /\ (Finished /\ Kind = "conforming"
                /\ options.token.bal[scenario.from] = 0) => verdict = "passed"
    /\ Named("transferFrom: should revert when trying to transfer more than balance of _from") =>
          /\ Passed => /\ promise.settled = "rejected"
                       /\ token.bal[scenario.from] < tokens(3)
                       /\ token.allowed[<<scenario.from, scenario.via>>] >= tokens(3)
          /\ (Finished /\ Kind = "uncheckedSelfTransfer" /\ SelfVariant)
                => verdict = "failed"
          /\ (Finished /\ Funded /\ Kind = "conforming"
                /\ options.token.bal[scenario.from] = 0) => verdict = "passed"
    /\ Named("transferFrom: should revert when trying to transfer more than allowed") =>
          /\ Passed => /\ promise.settled = "rejected"
                       /\ token.bal[scenario.from] >= tokens(4)
                       /\ token.allowed[<<scenario.from, scenario.via>>] < tokens(4)
          /\ (Finished /\ Kind = "ignoresAllowance") => verdict = "failed"
          /\ (Finished /\ Kind = "ownerSpendsFreely"
                /\ scenario.via = scenario.from) => verdict = "failed"
          /\ (Finished /\ Funded /\ Kind = "conforming") => verdict = "passed"
    /\ Named("transferFrom: should revert when trying to transfer while not allowed at all") =>
          /\ Passed => /\ promise.settled = "rejected"
                       /\ token.bal[alice] >= tokens(1)
                       /\ token.allowed[<<alice, bob>>] = 0
          /\ (Finished /\ Kind = "ignoresAllowance") => verdict = "failed"
          /\ (Finished /\ Funded /\ Kind = "conforming") => verdict = "passed"
    /\ (phase = "idle" /\ created = 0 /\ Registers) =>
          \A v \in TripleVariants :
             (\E s \in Scenarios : RejectsWithoutAllowance(s, v))
                <=> v \in {<<alice, bob, bob>>, <<alice, bob, charles>>}

C13_Witness ==
    /\ Named("transferFrom: should revert when trying to transfer more than allowed")
    /\ scenario.via = scenario.from
    /\ Passed
    /\ promise.settled = "rejected"
    /\ token.bal[scenario.from] = tokens(4)
    /\ token.allowed[<<scenario.from, scenario.via>>] = tokens(3)

\* C14: a committed increaseApproval(spender, d) sets the allowance to the
\* previous allowance plus d and emits Approval(owner, spender, previous + d),
\* also when d is zero.
C14_IncreaseApprovalAdds ==
    /\ Named("increaseApproval: should update allowance accordingly") =>
          /\ (phase = "body" /\ pc = 3) =>
                token.allowed[<<alice, bob>>] = tokens(1)
          /\ (phase = "body" /\ pc = 5) =>
                token.allowed[<<alice, bob>>] = tokens(1) + tokens(2)
          /\ Passed => token.allowed[<<alice, bob>>] = tokens(3)
          /\ (Finished /\ Kind = "increaseOverwrites") => verdict = "failed"
          /\ (Finished /\ Kind = "conforming") => verdict = "passed"
    /\ Named("increaseApproval: should fire Approval event") =>
          /\ (phase = "body" /\ pc = 3) =>
                result[1] = Event("Approval", alice, bob, tokens(1))
          /\ Passed => /\ result[1] = Event("Approval", alice, bob, tokens(3))
                       /\ token.allowed[<<alice, bob>>] = tokens(3)
          /\ (Finished /\ Kind = "increaseOverwrites") => verdict = "failed"
          /\ (Finished /\ Kind = "conforming") => verdict = "passed"
    /\ Named("increaseApproval: should fire Approval even when allowance did not change") =>
          /\ (phase = "body" /\ pc = 3) =>
                result[1] = Event("Approval", alice, bob, 0)
          /\ Passed => /\ result[1] = Event("Approval", alice, bob, tokens(3))
                       /\ token.allowed[<<alice, bob>>] = tokens(3)
          /\ (Finished /\ Kind = "quietIncrease") => verdict = "failed"
          /\ (Finished /\ Kind = "conforming") => verdict = "passed"

C14_Witness ==
    /\ Named("increaseApproval: should fire Approval even when allowance did not change")
    /\ Passed
    /\ token.allowed[<<alice, bob>>] = tokens(3)
    /\ result = <<Event("Approval", alice, bob, tokens(3))>>

\* C15: increaseApproval reverts exactly when the previous allowance plus
\* the added value exceeds the largest unsigned value: from an allowance of
\* zero an increase by uintMax is accepted (the simulated call reports
\* true), from an allowance of at least one it is rejected and the allowance
\* does not wrap around.
C15_IncreaseApprovalOverflow ==
    /\ Named("increaseApproval: should return true when increasing approval") =>
          /\ (phase = "body" /\ pc = 3) =>
                /\ token.allowed[<<alice, bob>>] = 0
                /\ token.allowed[<<alice, bob>>] + uintMax <= uintMax
          /\ (Finished /\ Kind = "increaseBelowMaxOnly") => verdict = "failed"
          /\ (Finished /\ Kind = "conforming") => verdict = "passed"
    /\ Named("increaseApproval: should revert when approval cannot be increased") =>
          /\ Passed => /\ promise.settled = "rejected"
                       /\ token.allowed[<<alice, bob>>] = tokens(1)
                       /\ token.allowed[<<alice, bob>>] >= 1
                       /\ token.allowed[<<alice, bob>>] + uintMax > uintMax
          /\ (Finished /\ Kind = "increaseWraps") => verdict = "failed"
          /\ (Finished /\ Kind = "conforming") => verdict = "passed"

C15_Witness ==
    /\ Named("increaseApproval: should revert when approval cannot be increased")
    /\ Passed
    /\ promise.settled = "rejected"
    /\ token.allowed[<<alice, bob>>] = tokens(1)

\* C16: decreaseApproval never reverts and never leaves a negative
\* allowance: a decrease by more than the allowance (uintMax included)
\* reports true when simulated and sets the allowance to exactly zero when
\* committed; a decrease within the allowance subtracts exactly and emits
\* Approval with the new total.
C16_DecreaseApprovalClamps ==
    /\ Named("decreaseApproval: should return true when approval cannot be decreased") =>
          /\ Passed => /\ token.allowed[<<alice, bob>>] = tokens(3)
                       /\ uintMax > token.allowed[<<alice, bob>>]
          /\ (Finished /\ Kind = "decreaseReverts") => verdict = "failed"
          /\ (Finished /\ Kind = "conforming") => verdict = "passed"
    /\ Named("decreaseApproval: should update allowance accordingly") =>
          /\ (phase = "body" /\ pc = 3) =>
                token.allowed[<<alice, bob>>] = tokens(3) - tokens(1)
          /\ (phase = "body" /\ pc = 5) => token.allowed[<<alice, bob>>] = 0
          /\ Passed => token.allowed[<<alice, bob>>] = 0
          /\ (Finished /\ Kind \in {"decreaseReverts", "decreaseWraps"})
                => verdict = "failed"
          /\ (Finished /\ Kind = "conforming") => verdict = "passed"
    /\ Named("decreaseApproval: should fire Approval event") =>
          /\ (phase = "body" /\ pc = 3) =>
                result[1] = Event("Approval", alice, bob, tokens(2))
          /\ Passed => /\ result[1] = Event("Approval", alice, bob, 0)
                       /\ token.allowed[<<alice, bob>>] = 0
          /\ (Finished /\ Kind = "conforming") => verdict = "passed"
    /\ Named("decreaseApproval: should fire Approval even when allowance did not change") =>
          /\ (phase = "body" /\ pc = 3) =>
                result[1] = Event("Approval", alice, bob, tokens(3))
          /\ (Finished /\ Kind = "quietDecrease") => verdict = "failed"
          /\ (Finished /\ Kind = "conforming") => verdict = "passed"

C16_Witness ==
    /\ Named("decreaseApproval: should update allowance accordingly")
    /\ phase = "body" /\ pc = 5
    /\ token.allowed[<<alice, bob>>] = 0
    /\ result = <<Event("Approval", alice, bob, 0)>>

RECURSIVE SumOver(_, _)
SumOver(f, S) ==
    IF S = {} THEN 0
    ELSE LET a == CHOOSE x \in S : TRUE IN f[a] + SumOver(f, S \ {a})

\* the sum of balanceOf(a) over all accounts
SumOfBalances(tk) == SumOver(tk.bal, DOMAIN tk.bal)

\* C17: for a token that behaves as the reference, the sum of the balances
\* over all accounts equals totalSupply in every state the scenarios reach by
\* credits, transfers and transferFroms, successful or rejected, transfers to
\* oneself and to the auxiliary address '0x1' included.
C17_Conservation ==
    Kind \in {"conforming", "assertive", "outOfGas"} =>
        SumOfBalances(token) = token.supply

C17_Witness ==
    /\ Kind = "conforming"
    /\ Named("transfer: should revert when trying to transfer more than balance")
    /\ SelfVariant
    /\ Passed
    /\ promise.settled = "rejected"
    /\ token.bal[Aux] = tokens(1)
    /\ token.bal[scenario.from] > 0
    /\ token.supply = options.token.supply + tokens(3)
    /\ SumOfBalances(token) = token.supply

\* the statement being executed calls increaseApproval or decreaseApproval
CallsIncreaseOrDecrease ==
    /\ phase = "body"
    /\ stmt.op \in {"isTrue", "send", "expectRevertOrFail"}
    /\ stmt.call.fn \in {"increaseApproval", "decreaseApproval"}

\* C18: the optional scenarios are gated by the options: the check of name,
\* of symbol and of decimals is registered only if the expected value is
\* present, and no scenario calls increaseApproval or decreaseApproval unless
\* the increaseDecreaseApproval flag is set.
C18_OptionalScenariosGated ==
    /\ Named("name(): should return options.name") => options.hasName
    /\ Named("symbol(): should return options.symbol") => options.hasSymbol
    /\ Named("decimals(): should return options.decimals") => options.hasDecimals
    /\ scenario.name \in IncreaseApprovalNames \cup DecreaseApprovalNames
          => options.increaseDecreaseApproval
    /\ CallsIncreaseOrDecrease => options.increaseDecreaseApproval
    /\ (options.hasName /\ Registers) =>
          Scn("name(): should return options.name",
              Undefined, Undefined, Undefined) \in Scenarios
    /\ (Finished /\ Named("name(): should return options.name")) =>
          (verdict = "passed" <=> options.name = options.token.name)

C18_Witness ==
    /\ Named("name(): should return options.name")
    /\ Passed
    /\ options.hasName /\ ~options.hasSymbol /\ ~options.hasDecimals
    /\ ~options.increaseDecreaseApproval

\* C19: when the token has no decimals query, the fixture setup treats
\* decimals as zero and the scenario goes on with unscaled amounts: the
\* absence of decimals makes no scenario fail.
C19_MissingDecimalsTreatedAsZero ==
    (~options.token.hasDecimals /\ Kind = "noDecimals" /\ Finished) =>
        /\ decimals = 0
        /\ verdict = "passed"

\* the scenarios whose body names the third participant, accounts[3]
UsesCharles(s) ==
    \/ s.name \in {"allowance: should return the correct allowance",
                   "transferFrom: should revert when trying to transfer while not allowed at all"}
    \/ s.name \in TransferFromNames /\ s.to = charles /\ s.via = bob

\* C20: when the options hold fewer than four accounts and a scenario that
\* uses accounts[3] executes, the suite fails at once with a configuration
\* error: no statement of the scenario runs with an undefined third
\* participant.
C20_FewAccountsFailFast ==
    (charles = Undefined /\ UsesCharles(scenario)
        /\ phase \in {"nested", "body", "afterEach"}) =>
        /\ phase = "afterEach"
        /\ verdict = "failed"
        /\ pc = 1
        /\ Ledger(token) = Ledger(Deploy(created))

\* the (owner, spender) pairs the calls of the body of s are made with
CallRoles(s) ==
    {<<Body(s)[k].call.sender, Body(s)[k].call.dst>> :
        k \in {i \in 1..Len(Body(s)) :
                  Body(s)[i].op \in {"isTrue", "send", "expectRevertOrFail"}}}

\* the role bindings the scenarios named in `names` run with
RoleBindings(names) ==
    UNION {IF s.name \in IncreaseApprovalNames \cup DecreaseApprovalNames
              THEN CallRoles(s)
           ELSE IF s.name \in TransferFromNames
              THEN {<<s.from, s.via, s.to>>}
           ELSE {<<s.from, s.to>>} : s \in {t \in Scenarios : t.name \in names}}

AllDistinct(r) == \A i, j \in DOMAIN r : i # j => r[i] # r[j]

\* C21: every scenario group with two or three roles (allowance, approve,
\* transfer, transferFrom, increaseApproval, decreaseApproval) runs at least
\* once with all roles bound to distinct accounts and at least once with two
\* roles bound to the same account.
C21_EveryGroupRunsBothWays ==
    \A names \in {{"allowance: describeIt should return the correct allowance"},
                  ApproveNames, TransferNames, TransferFromNames,
                  IncreaseApprovalNames, DecreaseApprovalNames} :
        (\E s \in Scenarios : s.name \in names) =>
            /\ \E r \in RoleBindings(names) : AllDistinct(r)
            /\ \E r \in RoleBindings(names) : ~AllDistinct(r)

\* the label of the describeIt call that registered s
LabelOf(s) ==
    (CHOOSE d \in transferFrom_describeIt : d.args = <<s.from, s.via, s.to>>).label

\* what a label says of _from, the caller and _to
LabelHolds(label, from, sender, to) ==
    CASE label = "_from != _to and _to != sender" -> from # to /\ to # sender
      [] label = "_from != _to and _to == sender" -> from # to /\ to = sender
      [] label = "_from == _to and _to != sender" -> from = to /\ to # sender
      [] label = "_from == _to and _to == sender" -> from = to /\ to = sender

\* C22: in each of the four transferFrom variants the accounts bound to
\* _from, to the caller and to _to satisfy the equalities and inequalities of
\* the variant's label; the variant labelled '_from == _to and _to != sender'
\* runs with _from and _to the same account and the caller another one.
C22_VariantBindingsMatchLabels ==
    (scenario.name \in TransferFromNames /\ phase \in {"nested", "body"}) =>
        /\ {d.args : d \in transferFrom_describeIt} = TripleVariants
        /\ LabelHolds(LabelOf(scenario), scenario.from, scenario.via,
                      scenario.to)

\* C23: in every role variant of 'should return true when called with
\* amount of 0 and sender is not approved', the allowance the caller holds
\* over the source of the simulated call is zero when the call is made: the
\* approval of the nested beforeEach does not cover the pair of this scenario.
C23_NotApprovedMeansNoAllowance ==
    ( /\ Named("transferFrom: should return true when called with amount of 0 and sender is not approved")
      /\ phase = "body" /\ pc = 1 ) =>
        token.allowed[<<stmt.call.src, stmt.call.sender>>] = 0

\* the reference setting: a conforming token, a minting credit callback, four
\* distinct accounts, no initial balance for accounts[1..3]
ReferenceSetting ==
    /\ Kind = "conforming"
    /\ options.purchase = "mint"
    /\ Cardinality({account(i) : i \in 0..3} \ {Undefined}) = 4
    /\ \A a \in {alice, bob, charles} : options.token.bal[a] = 0

\* C24: the suite is sound for the reference token: run with a minting
\* credit, four distinct accounts and no initial balances or allowances for
\* accounts[1..3], a conforming token passes every scenario of the ERC-20 and
\* approvals groups in every role variant, whatever its decimals.
C24_ReferenceTokenPasses ==
    ( /\ ReferenceSetting
      /\ Finished
      /\ scenario.name \notin {"name(): should return options.name",
                               "symbol(): should return options.symbol",
                               "decimals(): should return options.decimals"} )
        => verdict = "passed"

C24_Witness ==
    /\ ReferenceSetting
    /\ decimals = 1
    /\ Named("decreaseApproval: should update allowance accordingly")
    /\ Passed
    /\ pc = 7

\* the statement before pc is an event check, and it passed
EventCheckPassed ==
    /\ scenario # NoScenario
    /\ phase = "body" \/ Passed
    /\ pc > 1
    /\ body[pc - 1].op = "checkLog"

\* C25: the event check after a commit passes only if the receipt holds
\* exactly one event and that event has the expected name and arguments: a
\* receipt with no event, with a wrong first event or with an event besides
\* the expected one is failed.
C25_ExactlyOneEvent ==
    EventCheckPassed =>
        /\ Len(result) = 1
        /\ LogMatches(result, body[pc - 1].event, body[pc - 1].arg1,
                      body[pc - 1].arg2, tokens(body[pc - 1].tok))

\* C26: every asynchronous step is awaited before the next begins, the
\* caller's hooks included: options.beforeEach has completed before the
\* scenario body or the nested beforeEach makes a call on the instance, and
\* options.afterEach has completed before the next scenario's factory call,
\* so no hook is in flight while the scenario calls the same instance.
C26_HooksAwaited ==
    /\ (phase \in {"nested", "body"}) =>
          <<"beforeEach", token.id>> \notin pendingHooks
    /\ (phase \in {"nested", "body"} /\ created > 1) =>
          <<"afterEach", created - 1>> \notin pendingHooks

\* C27: after each scenario the instance and the cached decimals are
\* discarded: between the end of a scenario's afterEach and the next
\* scenario's beforeEach the suite holds no instance and decimals is back to
\* its initial value 0.
C27_DiscardedAfterEach ==
    (phase = "idle" /\ created > 0) =>
        /\ token = Null
        /\ decimals = 0

\* the allowance the approvals 1..(k - 1) of the body have set for pair p
ApprovedSoFar(p, k) ==
    LET set == {j \in 1..(k - 1) :
                   /\ body[j].op = "send"
                   /\ <<body[j].call.src, body[j].call.dst>> = p}
    IN  IF set = {} THEN 0
        ELSE tokens(body[CHOOSE j \in set : \A i \in set : i <= j].call.tok)

\* C28: approve(spender, v) by owner changes allowance(owner, spender) only:
\* every other ordered pair (the reverse pair, the pairs of the same owner
\* and of the same spender), the balances and the total supply stay as they
\* were, so six approvals over the six ordered pairs of three accounts give
\* six independent allowances.
C28_ApproveFrame ==
    Named("allowance: should return the correct allowance") =>
        /\ Passed =>
              /\ token.allowed[<<alice, bob>>] = tokens(1)
              /\ token.allowed[<<alice, charles>>] = tokens(2)
              /\ token.allowed[<<bob, charles>>] = tokens(3)
              /\ token.allowed[<<bob, alice>>] = tokens(4)
              /\ token.allowed[<<charles, alice>>] = tokens(5)
              /\ token.allowed[<<charles, bob>>] = tokens(6)
        /\ (Finished /\ Kind \in {"symmetricApprove", "ownerWideApprove"})
              => verdict = "failed"
        /\ (Kind = "conforming" /\ phase = "body" /\ pc <= 7) =>
              /\ \A p \in DOMAIN token.allowed :
                    token.allowed[p] = ApprovedSoFar(p, pc)
              /\ token.bal = options.token.bal
              /\ token.supply = options.token.supply
        /\ (Finished /\ Kind = "conforming") => verdict = "passed"

C28_Witness ==
    /\ Named("allowance: should return the correct allowance")
    /\ Passed
    /\ token.allowed[<<bob, charles>>] = tokens(3)
    /\ token.allowed[<<charles, bob>>] = tokens(6)
    /\ token.allowed[<<alice, alice>>] = 0

\* C29: a rejected commit of transfer, transferFrom or increaseApproval leaves
\* balances, allowances and total supply as they were, so the calls after it
\* see the state from before the rejection: after a credit of 3 and a rejected
\* transfer of 4 a transfer of 1 succeeds, and a transfer of 3 is then rejected
\* because the balance is 2.
C29_RejectionLeavesState ==
    /\ Named("transfer: should revert when trying to transfer more than balance") =>
          /\ (Kind = "conforming" /\ phase = "body" /\ pc = 3
                /\ verdict = "running") =>
                /\ token.bal[scenario.from]
                      = options.token.bal[scenario.from] + tokens(3)
                /\ token.bal[Aux] = 0
                /\ token.allowed = ZeroAllowances
                /\ token.supply = SumOfBalances(token)
          /\ Passed =>
                /\ token.bal[scenario.from] = tokens(2)
                /\ Kind = "conforming" => token.bal[Aux] = tokens(1)
                /\ scenario.to # scenario.from =>
                      token.bal[scenario.to] = options.token.bal[scenario.to]
          /\ (Finished /\ Kind = "rejectionDebits") => verdict = "failed"
    /\ ( /\ Named("increaseApproval: should revert when approval cannot be increased")
         /\ Finished /\ Kind = "conforming" ) =>
          /\ verdict = "passed"
          /\ promise.settled = "rejected"
          /\ token.allowed = [ZeroAllowances EXCEPT ![<<alice, bob>>] = tokens(1)]
          /\ token.bal = options.token.bal
          /\ token.supply = options.token.supply
    /\ ( /\ Named("transferFrom: should revert when trying to transfer more than allowed")
         /\ Finished /\ Funded /\ Kind = "conforming" ) =>
          /\ verdict = "passed"
          /\ promise.settled = "rejected"
          /\ token.allowed = StartLedger(scenario).allowed
          /\ token.bal[scenario.from]
                = options.token.bal[scenario.from] + tokens(4)
          /\ scenario.to # scenario.from =>
                token.bal[scenario.to] = options.token.bal[scenario.to]

C29_Witness ==
    /\ Named("transfer: should revert when trying to transfer more than balance")
    /\ ~SelfVariant
    /\ Passed
    /\ promise.settled = "rejected"
    /\ token.bal[scenario.from] = tokens(2)
    /\ token.bal[scenario.to] = 0

\* the ledger after the credit that opens the body of s
AfterCredit(s) ==
    Ledger(Exec(StartLedger(s), Kind,
                purchase(Addr(Body(s)[1].to), tokens(Body(s)[1].tok))))

\* the ledger after the credit and the one committed call of the body of s
AfterCommit(s) ==
    Ledger(Exec(AfterCredit(s), Kind, TxOf(Body(s)[5].call)))

\* C30: simulated calls never change state.  In 'should return true when
\* transfer can be made, false otherwise' of transfer and transferFrom the
\* balances, allowances and total supply stay those left by the credit
\* while the amounts 1, 2 and 3 are simulated, and those left by the one
\* committed transfer of 1 while 1 and 2 are simulated again; with a balance
\* (and allowance) of 3 all of these simulations report true.
C30_SimulationsKeepState ==
    ( Named("transfer: should return true when transfer can be made, false otherwise")
      \/ Named("transferFrom: should return true when transfer can be made, false otherwise") ) =>
        /\ (phase = "body" /\ pc \in 2..5) => Ledger(token) = AfterCredit(scenario)
        /\ (phase = "body" /\ pc \in 6..7) => Ledger(token) = AfterCommit(scenario)
        /\ Passed =>
              /\ pc = 8
              /\ Ledger(token) = AfterCommit(scenario)
        /\ (Finished /\ Kind = "conforming" /\ options.purchase = "mint") =>
              verdict = "passed"

C30_Witness ==
    /\ Named("transferFrom: should return true when transfer can be made, false otherwise")
    /\ Passed
    /\ pc = 8
    /\ Kind = "conforming"
    /\ token.allowed[<<scenario.from, scenario.via>>] = tokens(2)
    /\ token.bal[scenario.from] = IF scenario.from = scenario.to
                                  THEN tokens(3) ELSE tokens(2)
====
